---- MODULE Spec2Model ----
(***************************************************************************)
(* Asynchronous job-processing core of pdf-quick-search:                   *)
(*   - the extraction queue (app/services/extraction_service.py),          *)
(*   - the adaptive polling worker (app/worker.py),                        *)
(*   - the producers that enqueue and wake the worker                      *)
(*     (app/services/document_service.py),                                 *)
(*   - the typo-check jobs, their worker and their submit and cancel       *)
(*     requests (app/typo_worker.py, app/routes/typo_checker.py),          *)
(*   - the text chunker, check_text and the reconstruction of a corrected  *)
(*     text (app/services/typo_checker_service.py),                        *)
(*   - the token-bucket rate limiter (app/utils/rate_limiter.py).          *)
(* One action per handler or per commit point of a handler; the rate       *)
(* limiter has one action per read or write of its fields.                 *)
(***************************************************************************)
EXTENDS Integers, Sequences, FiniteSets, TLC

(***************************************************************************)
(* Bounds of the model                                                     *)
(***************************************************************************)
MaxJobs == 2
MaxTime == 1
MaxTypoJobs == 1
MaxTypoTime == 2
MaxSubmits == 4
MaxTextLen == 12
MaxChunkSize == 11
MaxOriginalLen == 3
MaxCheckLen == 3
MaxCheckChunk == 2
MaxRate == 2
TicksPerToken == 2
MaxReads == 1

Producers == {1, 2}
Submitters == {1, 2}
Users == {1}
Priorities == {0, 1, 5}

(***************************************************************************)
(* Program constants                                                       *)
(***************************************************************************)
MAX_RETRIES == 3
MaxActiveJobs == 3
StaleWindow == 1
max_idle_checks == 2

None == -1
Free == 0

VARIABLES
    queue,        \* extraction_queue rows, in insertion (id) order
    now,          \* datetime.now(timezone.utc), in clock units
    scheduler,    \* manager.scheduler: "None", "stopped" or "running"
    sjob,         \* the APScheduler job "extraction_worker": "none", "scheduled", "paused"
    is_running,   \* manager._is_running
    idle_count,   \* manager.idle_count
    lock,         \* manager._lock: Free or the context holding it
    tpc,          \* position of the executing tick (_process_queue)
    t_idle,       \* the tick's loaded value of idle_count inside "+= 1"
    t_item,       \* the queue row the tick's process_next works on
    ppc,          \* position of each producer (upload request)
    result,       \* return value of the process_next that just returned
    wakes,        \* history: wake_up calls returned in a row (capped at 2)
    empties,      \* history: consecutive empty ticks since the worker last (re)started
    resumed,      \* history: the wake_up that returned last resumed a paused worker
    tjobs,        \* typo_check_jobs rows, in insertion (id) order
    t_stale,      \* the rows the tick's stale sweep has loaded
    spc,          \* position of each submit request (check_typo)
    s_user,       \* g.user_id of each submit request
    cpc,          \* position of the cancel request (cancel_job)
    c_job,        \* the row the cancel request has loaded
    text,         \* _chunk_text: the argument text, as a sequence of characters
    chunk_size,   \* _chunk_text: the argument chunk_size
    chunks,       \* _chunk_text: the list chunks
    current_pos,  \* _chunk_text: current_pos
    kpc,          \* position of the _chunk_text call
    original_text, \* _reconstruct_corrected_text: the argument original_text
    issues,       \* _reconstruct_corrected_text: the argument issues
    sorted_issues, \* _reconstruct_corrected_text: sorted_issues
    recon,        \* _reconstruct_corrected_text: the local result
    r_i,          \* _reconstruct_corrected_text: issues the for loop has gone through
    rpc,          \* position of the _reconstruct_corrected_text call
    apc,          \* position of the check_text call
    c_i,          \* check_text: chunks the for loop has gone through
    all_issues,   \* check_text: all_issues
    corrected_chunks, \* check_text: corrected_chunks
    current_position, \* check_text: current_position
    final_corrected, \* check_text: final_corrected
    replies,      \* history: what check_typo returned for each chunk of this call
    stored,       \* typo_check_results rows of the user and text
    check_result, \* return value of the check_text call that returned last
    rate,         \* limiter.rate
    tokens,       \* limiter._tokens, in ticks of refill
    age,          \* time.monotonic() - limiter._last_update, in ticks
    llock,        \* limiter._lock: Free or the thread holding it
    lpc,          \* position of each thread inside its call on the limiter
    op,           \* the call each thread is in: "try", "wait", "tokens", "reset"
    l_elapsed,    \* _refill: each thread's elapsed
    l_since,      \* _refill: ticks since each thread read now
    l_tokens,     \* each thread's read of self._tokens inside a read-and-write
    l_timeout,    \* _acquire_with_wait: each thread's timeout
    waited,       \* _acquire_with_wait: time.monotonic() - start_time, up to timeout
    nap,          \* time.sleep: ticks each sleeping thread has left
    ret,          \* what each thread's last call returned: "True", "False", "tokens"
    h_phase,      \* history: "burst", "waiting", "after" or "off"
    h_wait,       \* history: ticks waited since the bucket was emptied
    h_granted,    \* history: acquires that returned True in this phase
    h_denied,     \* history: acquires that returned False in this phase (up to 2)
    h_reads,      \* history: reads of the tokens property begun
    cli_pc,       \* position of the process-queue command (app/cli.py)
    cli_item,     \* the queue row the command's process_next works on
    cli_retry     \* the command's loaded value of retry_count inside "+= 1"

vars == <<queue, now, scheduler, sjob, is_running, idle_count, lock,
          tpc, t_idle, t_item, ppc, result, wakes, empties, resumed,
          tjobs, t_stale, spc, s_user, cpc, c_job,
          text, chunk_size, chunks, current_pos, kpc,
          original_text, issues, sorted_issues, recon, r_i, rpc,
          apc, c_i, all_issues, corrected_chunks, current_position,
          final_corrected, replies, stored, check_result,
          rate, tokens, age, llock, lpc, op, l_elapsed, l_since, l_tokens,
          l_timeout, waited, nap, ret, h_phase, h_wait, h_granted, h_denied,
          h_reads, cli_pc, cli_item, cli_retry>>

Min(a, b) == IF a < b THEN a ELSE b

mgrVars == <<scheduler, sjob, is_running, idle_count, lock>>
tickVars == <<tpc, t_idle, t_item, result>>
histVars == <<wakes, empties, resumed>>
typoVars == <<tjobs, t_stale, spc, s_user, cpc, c_job>>
extractionVars == <<queue, ppc, result>>
chunkVars == <<text, chunk_size, chunks, current_pos, kpc>>
reconVars == <<original_text, issues, sorted_issues, recon, r_i, rpc>>
checkVars == <<apc, c_i, all_issues, corrected_chunks, current_position,
               final_corrected, replies, stored, check_result>>
limiterHist == <<h_phase, h_wait, h_granted, h_denied, h_reads>>
limiterVars == <<rate, tokens, age, llock, lpc, op, l_elapsed, l_since, l_tokens,
                 l_timeout, waited, nap, ret, limiterHist>>
pureVars == <<reconVars, checkVars, limiterVars>>
cliVars == <<cli_pc, cli_item, cli_retry>>
sysVars == <<now, mgrVars, tickVars, histVars, extractionVars, typoVars, cliVars>>

(***************************************************************************)
(* ExtractionQueue rows                                                    *)
(***************************************************************************)
ExtractionQueue(has_document, priority) ==
    [ document          |-> has_document,
      priority          |-> priority,
      status            |-> "pending",
      created_at        |-> now,
      started_at        |-> None,
      completed_at      |-> None,
      error_message     |-> "null",
      retry_count       |-> 0,
      extraction_status |-> IF has_document THEN "pending" ELSE "null" ]

Ids == 1..Len(queue)

\* a status filter that lets failed rows back in
PendingOrFailed == { i \in Ids : queue[i].status \in {"pending", "failed"} }

\* filter_by(status="pending")
Pending == { i \in Ids : queue[i].status = "pending" }

\* ORDER BY priority DESC, created_at ASC: row a sorts strictly before row b
OrderBeforeAscPriority(a, b) ==
    \/ a.priority < b.priority
    \/ a.priority = b.priority /\ a.created_at < b.created_at

OrderBefore(a, b) ==
    \/ a.priority > b.priority
    \/ a.priority = b.priority /\ a.created_at < b.created_at

\* the rows the query may return as .first(): those no pending row sorts before
\* (rows equal in both sort keys come back in an order the store chooses)
get_next_pending ==
    { i \in Pending : \A k \in Pending : ~OrderBefore(queue[k], queue[i]) }

(***************************************************************************)
(* Producers                                                               *)
(***************************************************************************)
\* ExtractionService.add_to_queue(document_id, priority)
add_to_queue(has_document, priority) ==
    queue' = Append(queue, ExtractionQueue(has_document, priority))

\* a direct call of the service function; document_id is whatever the caller passes
AddToQueue ==
    /\ Len(queue) < MaxJobs
    /\ \E has_document \in BOOLEAN, priority \in Priorities :
          add_to_queue(has_document, priority)
    /\ UNCHANGED <<now, mgrVars, tickVars, ppc, histVars>>
    /\ UNCHANGED <<typoVars, chunkVars, pureVars, cliVars>>

\* DocumentService.upload_document up to (not including) the wake_up call
Upload(p) ==
    /\ ppc[p] = "idle"
    /\ Len(queue) < MaxJobs
    /\ add_to_queue(TRUE, 0)
    /\ ppc' = [ppc EXCEPT ![p] = "enqueued"]
    /\ UNCHANGED <<now, mgrVars, tickVars, histVars>>
    /\ UNCHANGED <<typoVars, chunkVars, pureVars, cliVars>>

(***************************************************************************)
(* ExtractionWorkerManager                                                 *)
(***************************************************************************)
\* init_worker: init_app then start()
InitWorker ==
    /\ scheduler = "None"
    /\ lock = Free
    /\ IF is_running
         THEN /\ scheduler' = "stopped"
              /\ UNCHANGED <<sjob, is_running, idle_count>>
         ELSE /\ idle_count' = 0
              /\ scheduler' = "running"
              /\ sjob' = "scheduled"
              /\ is_running' = TRUE
    /\ wakes' = 0
    /\ empties' = 0
    /\ resumed' = FALSE
    /\ UNCHANGED <<queue, now, lock, tickVars, ppc>>
    /\ UNCHANGED <<typoVars, chunkVars, pureVars, cliVars>>

\* scheduler.resume_job raises when there is no scheduler or no such job
ResumeRaises == scheduler = "None" \/ sjob = "none"

\* wake_up() as it would be without the reset in the already-running branch
WakeUpNoReset(p) ==
    /\ ppc[p] = "enqueued"
    /\ lock = Free
    /\ IF is_running
         THEN /\ ppc' = [ppc EXCEPT ![p] = "idle"]
              /\ wakes' = Min(wakes + 1, 2)
              /\ resumed' = FALSE
              /\ UNCHANGED <<sjob, is_running, lock, idle_count, empties>>
         ELSE /\ idle_count' = 0
              /\ IF ResumeRaises
                   THEN /\ lock' = p
                        /\ ppc' = [ppc EXCEPT ![p] = "start_lock"]
                        /\ wakes' = 0
                        /\ resumed' = FALSE
                        /\ UNCHANGED <<sjob, is_running, empties>>
                   ELSE /\ sjob' = "scheduled"
                        /\ is_running' = TRUE
                        /\ ppc' = [ppc EXCEPT ![p] = "idle"]
                        /\ wakes' = Min(wakes + 1, 2)
                        /\ empties' = 0
                        /\ resumed' = TRUE
                        /\ UNCHANGED lock
    /\ UNCHANGED <<queue, now, scheduler, tickVars>>
    /\ UNCHANGED <<typoVars, chunkVars, pureVars, cliVars>>

\* wake_up(): the body runs under the lock; when resume_job raises, the
\* fallback start() asks for the same (non-reentrant) lock again
WakeUp(p) ==
    /\ ppc[p] = "enqueued"
    /\ lock = Free
    /\ idle_count' = 0
    /\ IF is_running
         THEN /\ ppc' = [ppc EXCEPT ![p] = "idle"]
              /\ wakes' = Min(wakes + 1, 2)
              /\ resumed' = FALSE
              /\ UNCHANGED <<sjob, is_running, lock, empties>>
         ELSE IF ResumeRaises
                THEN /\ lock' = p
                     /\ ppc' = [ppc EXCEPT ![p] = "start_lock"]
                     /\ wakes' = 0
                     /\ resumed' = FALSE
                     /\ UNCHANGED <<sjob, is_running, empties>>
                ELSE /\ sjob' = "scheduled"
                     /\ is_running' = TRUE
                     /\ ppc' = [ppc EXCEPT ![p] = "idle"]
                     /\ wakes' = Min(wakes + 1, 2)
                     /\ empties' = 0
                     /\ resumed' = TRUE
                     /\ UNCHANGED lock
    /\ UNCHANGED <<queue, now, scheduler, tickVars>>
    /\ UNCHANGED <<typoVars, chunkVars, pureVars, cliVars>>

\* shutdown(): no lock taken, the running flag is left as it is
Shutdown ==
    /\ scheduler = "running"
    /\ scheduler' = "stopped"
    /\ sjob' = "none"
    /\ wakes' = 0
    /\ resumed' = FALSE
    /\ UNCHANGED <<queue, now, is_running, idle_count, lock, tickVars, ppc, empties>>
    /\ UNCHANGED <<typoVars, chunkVars, pureVars, cliVars>>

(***************************************************************************)
(* The tick: _process_queue, fired by the interval trigger                 *)
(***************************************************************************)
TickFires == scheduler = "running" /\ sjob = "scheduled" /\ tpc = "idle"

\* a tick that leaves idle_count as it is when it finds work
TickCountNoReset ==
    /\ TickFires
    /\ IF Pending # {}
         THEN /\ tpc' = "process_next"
              /\ empties' = 0
         ELSE /\ tpc' = "empty"
              /\ empties' = Min(empties + 1, max_idle_checks)
    /\ wakes' = 0
    /\ resumed' = FALSE
    /\ UNCHANGED <<queue, now, scheduler, sjob, is_running, idle_count, lock,
                   t_idle, t_item, ppc, result>>
    /\ UNCHANGED <<typoVars, chunkVars, pureVars, cliVars>>

\* pending_count query and the branch on it
TickCount ==
    /\ TickFires
    /\ IF Pending # {}
         THEN /\ idle_count' = 0
              /\ tpc' = "process_next"
              /\ empties' = 0
         ELSE /\ tpc' = "empty"
              /\ empties' = Min(empties + 1, max_idle_checks)
              /\ UNCHANGED idle_count
    /\ wakes' = 0
    /\ resumed' = FALSE
    /\ UNCHANGED <<queue, now, scheduler, sjob, is_running, lock,
                   t_idle, t_item, ppc, result>>
    /\ UNCHANGED <<typoVars, chunkVars, pureVars, cliVars>>

\* self.idle_count += 1: the load
TickIdleLoad ==
    /\ tpc = "empty"
    /\ t_idle' = idle_count
    /\ tpc' = "incr"
    /\ UNCHANGED <<queue, now, mgrVars, t_item, ppc, result, histVars>>
    /\ UNCHANGED <<typoVars, chunkVars, pureVars, cliVars>>

\* an increment that counts an empty tick twice
TickIdleStoreTwice ==
    /\ tpc = "incr"
    /\ idle_count' = t_idle + 2
    /\ t_idle' = None
    /\ tpc' = "check"
    /\ wakes' = 0
    /\ resumed' = FALSE
    /\ UNCHANGED <<queue, now, scheduler, sjob, is_running, lock, t_item, ppc, result, empties>>
    /\ UNCHANGED <<typoVars, chunkVars, pureVars, cliVars>>

\* self.idle_count += 1: the store
TickIdleStore ==
    /\ tpc = "incr"
    /\ idle_count' = t_idle + 1
    /\ t_idle' = None
    /\ tpc' = "check"
    /\ wakes' = 0
    /\ resumed' = FALSE
    /\ UNCHANGED <<queue, now, scheduler, sjob, is_running, lock, t_item, ppc, result, empties>>
    /\ UNCHANGED <<typoVars, chunkVars, pureVars, cliVars>>

\* a threshold check that is off by one
TickIdleCheckEarly ==
    /\ tpc = "check"
    /\ tpc' = IF idle_count >= max_idle_checks - 1 THEN "pause" ELSE "idle"
    /\ UNCHANGED <<queue, now, mgrVars, t_idle, t_item, ppc, result, histVars>>
    /\ UNCHANGED <<typoVars, chunkVars, pureVars, cliVars>>

\* if self.idle_count >= self.max_idle_checks: self._pause()
TickIdleCheck ==
    /\ tpc = "check"
    /\ tpc' = IF idle_count >= max_idle_checks THEN "pause" ELSE "idle"
    /\ UNCHANGED <<queue, now, mgrVars, t_idle, t_item, ppc, result, histVars>>
    /\ UNCHANGED <<typoVars, chunkVars, pureVars, cliVars>>

\* _pause(): under the lock; pause_job's exception is swallowed
Pause ==
    /\ tpc = "pause"
    /\ lock = Free
    /\ IF is_running
         THEN /\ sjob' = IF sjob = "scheduled" THEN "paused" ELSE sjob
              /\ is_running' = FALSE
         ELSE UNCHANGED <<sjob, is_running>>
    /\ tpc' = "idle"
    /\ wakes' = 0
    /\ resumed' = FALSE
    /\ UNCHANGED <<queue, now, scheduler, idle_count, lock, t_idle, t_item, ppc, result, empties>>
    /\ UNCHANGED <<typoVars, chunkVars, pureVars, cliVars>>

(***************************************************************************)
(* ExtractionService.process_next                                          *)
(***************************************************************************)
\* a missing-document exit that goes through the retry path (one retry spent,
\* the row pending again until the retries run out)
ProcessNextClaimRetrying ==
    /\ tpc = "process_next"
    /\ IF get_next_pending = {}
         THEN /\ result' = "ok"
              /\ tpc' = "returned"
              /\ UNCHANGED <<queue, t_item>>
         ELSE \E i \in get_next_pending :
                IF ~queue[i].document
                  THEN /\ queue' = [queue EXCEPT ![i] =
                                      [@ EXCEPT !.retry_count = @ + 1,
                                                !.error_message = "Document not found",
                                                !.status = IF queue[i].retry_count + 1 >= MAX_RETRIES
                                                             THEN "failed" ELSE "pending"]]
                       /\ result' = "Document not found"
                       /\ tpc' = "returned"
                       /\ t_item' = i
                  ELSE /\ queue' = [queue EXCEPT ![i].status = "processing",
                                                 ![i].started_at = now,
                                                 ![i].extraction_status = "processing"]
                       /\ tpc' = "extract"
                       /\ t_item' = i
                       /\ UNCHANGED result
    /\ UNCHANGED <<now, mgrVars, t_idle, ppc, histVars>>
    /\ UNCHANGED <<typoVars, chunkVars, pureVars, cliVars>>

\* get_next_pending, the missing-document exit, mark processing, commit
ProcessNextClaim ==
    /\ tpc = "process_next"
    /\ IF get_next_pending = {}
         THEN /\ result' = "ok"
              /\ tpc' = "returned"
              /\ UNCHANGED <<queue, t_item>>
         ELSE \E i \in get_next_pending :
                IF ~queue[i].document
                  THEN /\ queue' = [queue EXCEPT ![i].status = "failed",
                                                 ![i].error_message = "Document not found"]
                       /\ result' = "Document not found"
                       /\ tpc' = "returned"
                       /\ t_item' = i
                  ELSE /\ queue' = [queue EXCEPT ![i].status = "processing",
                                                 ![i].started_at = now,
                                                 ![i].extraction_status = "processing"]
                       /\ tpc' = "extract"
                       /\ t_item' = i
                       /\ UNCHANGED result
    /\ UNCHANGED <<now, mgrVars, t_idle, ppc, histVars>>
    /\ UNCHANGED <<typoVars, chunkVars, pureVars, cliVars>>

RetryExhaustedStrict(retry_count) == retry_count > MAX_RETRIES

RetryExhausted(retry_count) == retry_count >= MAX_RETRIES

\* an except branch that leaves started_at of a retried row as the attempt set it
mark_failed_or_retry_started(row) ==
    LET n == row.retry_count + 1
    IN  IF RetryExhausted(n)
          THEN [row EXCEPT !.retry_count = n,
                           !.error_message = "error",
                           !.status = "failed",
                           !.completed_at = now,
                           !.extraction_status = "failed"]
          ELSE [row EXCEPT !.retry_count = n,
                           !.error_message = "error",
                           !.status = "pending"]

\* the except branch of process_next
mark_failed_or_retry(row) ==
    LET n == row.retry_count + 1
    IN  IF RetryExhausted(n)
          THEN [row EXCEPT !.retry_count = n,
                           !.error_message = "error",
                           !.status = "failed",
                           !.completed_at = now,
                           !.extraction_status = "failed"]
          ELSE [row EXCEPT !.retry_count = n,
                           !.error_message = "error",
                           !.status = "pending",
                           !.started_at = None]

\* a success branch that counts attempts instead of failures
mark_completed_counting(row) ==
    [row EXCEPT !.status = "completed",
                !.completed_at = now,
                !.extraction_status = "completed",
                !.retry_count = row.retry_count + 1]

\* the success branch of process_next
mark_completed(row) ==
    [row EXCEPT !.status = "completed",
                !.completed_at = now,
                !.extraction_status = "completed"]

\* a process_next without the except branch: the exception leaves the tick
\* and the row stays as the claim left it
ProcessNextFinishUncaught ==
    /\ tpc = "extract"
    /\ \E raised \in BOOLEAN :
         IF raised
           THEN /\ tpc' = "idle"
                /\ t_item' = None
                /\ UNCHANGED <<queue, result>>
           ELSE /\ queue' = [queue EXCEPT ![t_item] = mark_completed(queue[t_item])]
                /\ result' = "ok"
                /\ tpc' = "returned"
                /\ UNCHANGED t_item
    /\ UNCHANGED <<now, mgrVars, t_idle, ppc, histVars>>
    /\ UNCHANGED <<typoVars, chunkVars, pureVars, cliVars>>

\* extract_text returns or raises; the outcome is committed
ProcessNextFinish ==
    /\ tpc = "extract"
    /\ \E raised \in BOOLEAN :
         IF raised
           THEN /\ queue' = [queue EXCEPT ![t_item] = mark_failed_or_retry(queue[t_item])]
                /\ result' = "error"
           ELSE /\ queue' = [queue EXCEPT ![t_item] = mark_completed(queue[t_item])]
                /\ result' = "ok"
    /\ tpc' = "returned"
    /\ UNCHANGED <<now, mgrVars, t_idle, t_item, ppc, histVars>>
    /\ UNCHANGED <<typoVars, chunkVars, pureVars, cliVars>>

\* back in _process_queue: the result is logged and the tick ends
TickReturn ==
    /\ tpc = "returned"
    /\ tpc' = "idle"
    /\ result' = "none"
    /\ t_item' = None
    /\ UNCHANGED <<queue, now, mgrVars, t_idle, ppc, histVars>>
    /\ UNCHANGED <<typoVars, chunkVars, pureVars, cliVars>>

\* time passes (up to limit in the model)
Advance(limit) ==
    /\ now < limit
    /\ now' = now + 1
    /\ UNCHANGED <<queue, mgrVars, tickVars, ppc, histVars, typoVars, chunkVars, pureVars, cliVars>>

(***************************************************************************)
(* The process-queue command (app/cli.py): a second context, in a process  *)
(* of its own, that runs ExtractionService.process_next on the same rows.  *)
(* Its process_next is taken statement by statement: the query, the write  *)
(* and commit of the claim, the extraction, the reload of the expired row  *)
(* by "retry_count += 1", and the commit of the outcome.                   *)
(***************************************************************************)
\* process_queue_command: the count query; with no pending row it returns
CliCount ==
    /\ cli_pc = "idle"
    /\ Pending # {}
    /\ cli_pc' = "process_next"
    /\ UNCHANGED <<queue, cli_item, cli_retry>>
    /\ UNCHANGED <<now, mgrVars, tickVars, ppc, histVars, typoVars, chunkVars, pureVars>>

\* process_next: queue_item = get_next_pending()
CliSelect ==
    /\ cli_pc = "process_next"
    /\ IF get_next_pending = {}
         THEN /\ cli_pc' = "idle"
              /\ UNCHANGED cli_item
         ELSE /\ \E i \in get_next_pending : cli_item' = i
              /\ cli_pc' = "selected"
    /\ UNCHANGED <<queue, cli_retry>>
    /\ UNCHANGED <<now, mgrVars, tickVars, ppc, histVars, typoVars, chunkVars, pureVars>>

\* process_next: the missing-document exit, or mark processing and commit
CliClaim ==
    /\ cli_pc = "selected"
    /\ IF ~queue[cli_item].document
         THEN /\ queue' = [queue EXCEPT ![cli_item].status = "failed",
                                        ![cli_item].error_message = "Document not found"]
              /\ cli_pc' = "idle"
              /\ cli_item' = None
         ELSE /\ queue' = [queue EXCEPT ![cli_item].status = "processing",
                                        ![cli_item].started_at = now,
                                        ![cli_item].extraction_status = "processing"]
              /\ cli_pc' = "extract"
              /\ UNCHANGED cli_item
    /\ UNCHANGED cli_retry
    /\ UNCHANGED <<now, mgrVars, tickVars, ppc, histVars, typoVars, chunkVars, pureVars>>

\* extract_text returns and the success is committed, or it raises and
\* "queue_item.retry_count += 1" reads the row again
CliExtract ==
    /\ cli_pc = "extract"
    /\ \E raised \in BOOLEAN :
         IF raised
           THEN /\ cli_retry' = queue[cli_item].retry_count
                /\ cli_pc' = "failing"
                /\ UNCHANGED <<queue, cli_item>>
           ELSE /\ queue' = [queue EXCEPT ![cli_item] = mark_completed(queue[cli_item])]
                /\ cli_pc' = "idle"
                /\ cli_item' = None
                /\ UNCHANGED cli_retry
    /\ UNCHANGED <<now, mgrVars, tickVars, ppc, histVars, typoVars, chunkVars, pureVars>>

\* the except branch: the writes on the row as read, and the commit
CliFail ==
    /\ cli_pc = "failing"
    /\ queue' = [queue EXCEPT ![cli_item] =
                    mark_failed_or_retry([queue[cli_item] EXCEPT !.retry_count = cli_retry])]
    /\ cli_pc' = "idle"
    /\ cli_item' = None
    /\ cli_retry' = None
    /\ UNCHANGED <<now, mgrVars, tickVars, ppc, histVars, typoVars, chunkVars, pureVars>>

\* the worker's process dies during extract_text and is started again: the
\* module-level manager and every request in flight are gone, the rows stay
ExtractionCrash ==
    /\ tpc = "extract"
    /\ scheduler' = "None"
    /\ sjob' = "none"
    /\ is_running' = FALSE
    /\ idle_count' = 0
    /\ lock' = Free
    /\ tpc' = "idle"
    /\ t_idle' = None
    /\ t_item' = None
    /\ ppc' = [p \in Producers |-> "idle"]
    /\ wakes' = 0
    /\ empties' = 0
    /\ resumed' = FALSE
    /\ UNCHANGED <<queue, now, result>>
    /\ UNCHANGED <<typoVars, chunkVars, pureVars, cliVars>>

(***************************************************************************)
(* Typo-check jobs: app/routes/typo_checker.py and app/typo_worker.py.      *)
(* In SpecTypo and SpecSubmit the manager variables hold the fields of the *)
(* TypoCheckWorkerManager instance typo_check_worker, whose start, _pause, *)
(* wake_up and shutdown read line for line like ExtractionWorkerManager's. *)
(* The history variables follow the extraction worker only.                *)
(***************************************************************************)
TypoCheckJob(user_id) ==
    [ user_id       |-> user_id,
      status        |-> "pending",
      created_at    |-> now,
      started_at    |-> None,
      completed_at  |-> None,
      error_message |-> "null",
      retry_count   |-> 0 ]

TypoIds == 1..Len(tjobs)

Terminal == {"completed", "failed", "cancelled"}

\* the count query of check_typo
ActiveJobs(u) ==
    Cardinality({ i \in TypoIds : /\ tjobs[i].user_id = u
                                  /\ tjobs[i].status \in {"pending", "processing"} })

\* check_typo up to the limit check; 429 when the count is at the cap
SubmitCheck(s) ==
    /\ s \in DOMAIN spc
    /\ spc[s] = "idle"
    /\ \E u \in Users :
         IF ActiveJobs(u) >= MaxActiveJobs
           THEN UNCHANGED <<spc, s_user>>
           ELSE /\ spc' = [spc EXCEPT ![s] = "counted"]
                /\ s_user' = [s_user EXCEPT ![s] = u]
    /\ UNCHANGED <<now, mgrVars, tickVars, histVars, extractionVars, chunkVars, pureVars, cliVars,
                   tjobs, t_stale, cpc, c_job>>

\* check_typo: the insert and its commit (at most limit rows in the model)
SubmitInsert(s, limit) ==
    /\ s \in DOMAIN spc
    /\ spc[s] = "counted"
    /\ Len(tjobs) < limit
    /\ tjobs' = Append(tjobs, TypoCheckJob(s_user[s]))
    /\ spc' = [spc EXCEPT ![s] = "committed"]
    /\ UNCHANGED <<now, mgrVars, tickVars, histVars, extractionVars, chunkVars, pureVars, cliVars,
                   t_stale, s_user, cpc, c_job>>

\* typo_check_worker.wake_up(), called by check_typo after the commit
TypoWakeUp(s) ==
    /\ s \in DOMAIN spc
    /\ spc[s] = "committed"
    /\ lock = Free
    /\ idle_count' = 0
    /\ IF is_running
         THEN /\ spc' = [spc EXCEPT ![s] = "idle"]
              /\ s_user' = [s_user EXCEPT ![s] = None]
              /\ UNCHANGED <<sjob, is_running, lock>>
         ELSE IF ResumeRaises
                THEN /\ lock' = s
                     /\ spc' = [spc EXCEPT ![s] = "start_lock"]
                     /\ UNCHANGED <<sjob, is_running, s_user>>
                ELSE /\ sjob' = "scheduled"
                     /\ is_running' = TRUE
                     /\ spc' = [spc EXCEPT ![s] = "idle"]
                     /\ s_user' = [s_user EXCEPT ![s] = None]
                     /\ UNCHANGED lock
    /\ UNCHANGED <<now, scheduler, tickVars, histVars, extractionVars, chunkVars, pureVars, cliVars,
                   tjobs, t_stale, cpc, c_job>>

\* cancel_job up to the status check: 403 for another user's job, 400 for a
\* terminal job
CancelLoad ==
    /\ cpc = "idle"
    /\ \E j \in TypoIds, u \in Users :
         IF tjobs[j].user_id # u \/ tjobs[j].status \in Terminal
           THEN UNCHANGED <<cpc, c_job>>
           ELSE /\ cpc' = "loaded"
                /\ c_job' = j
    /\ UNCHANGED <<now, mgrVars, tickVars, histVars, extractionVars, chunkVars, pureVars, cliVars,
                   tjobs, t_stale, spc, s_user>>

\* cancel_job: the write of the loaded row and its commit
CancelCommit ==
    /\ cpc = "loaded"
    /\ tjobs' = [tjobs EXCEPT ![c_job].status = "cancelled",
                              ![c_job].completed_at = now]
    /\ cpc' = "idle"
    /\ c_job' = None
    /\ UNCHANGED <<now, mgrVars, tickVars, histVars, extractionVars, chunkVars, pureVars, cliVars,
                   t_stale, spc, s_user>>

\* init_typo_worker: init_app then start()
TypoInitWorker == InitWorker

\* a sweep query without the started_at cutoff
TypoTickSweepQueryAnyAge ==
    /\ TickFires
    /\ t_stale' = { i \in TypoIds : tjobs[i].status = "processing" }
    /\ tpc' = "sweep"
    /\ UNCHANGED <<now, mgrVars, t_idle, t_item, result, histVars, extractionVars, chunkVars, pureVars, cliVars,
                   tjobs, spc, s_user, cpc, c_job>>

\* _cleanup_stale_jobs: the query
TypoTickSweepQuery ==
    /\ TickFires
    /\ t_stale' = { i \in TypoIds : /\ tjobs[i].status = "processing"
                                    /\ tjobs[i].started_at < now - StaleWindow }
    /\ tpc' = "sweep"
    /\ UNCHANGED <<now, mgrVars, t_idle, t_item, result, histVars, extractionVars, chunkVars, pureVars, cliVars,
                   tjobs, spc, s_user, cpc, c_job>>

\* the error_message the sweep writes
StaleMessage == "Job timed out (stale processing)"

\* the rows as the sweep's loop and commit leave them
Swept ==
    [ i \in TypoIds |->
        IF i \in t_stale
          THEN [tjobs[i] EXCEPT !.status = "failed",
                                !.error_message = StaleMessage,
                                !.completed_at = now]
          ELSE tjobs[i] ]

\* a selection that forgets cancellation: the oldest row that is pending or
\* cancelled
FirstPendingOrCancelled(r) ==
    { i \in DOMAIN r : /\ r[i].status \in {"pending", "cancelled"}
                       /\ \A k \in DOMAIN r :
                            r[k].status \in {"pending", "cancelled"}
                               => r[k].created_at >= r[i].created_at }

\* filter_by(status="pending").order_by(created_at.asc()).first() on rows r
FirstPending(r) ==
    { i \in DOMAIN r : /\ r[i].status = "pending"
                       /\ \A k \in DOMAIN r :
                            r[k].status = "pending" => r[k].created_at >= r[i].created_at }

\* _cleanup_stale_jobs: the writes and the commit; then the query for the
\* oldest pending job and the branch on it
TypoTickSelect ==
    /\ tpc = "sweep"
    /\ tjobs' = Swept
    /\ t_stale' = {}
    /\ IF FirstPending(Swept) = {}
         THEN /\ tpc' = "empty"
              /\ UNCHANGED <<idle_count, t_item>>
         ELSE /\ \E i \in FirstPending(Swept) : t_item' = i
              /\ idle_count' = 0
              /\ tpc' = "process_job"
    /\ UNCHANGED <<now, scheduler, sjob, is_running, lock, t_idle, result,
                   histVars, extractionVars, chunkVars, pureVars, cliVars, spc, s_user, cpc, c_job>>

\* process_job: a job no longer pending is skipped; otherwise mark_processing
TypoProcessClaim ==
    /\ tpc = "process_job"
    /\ IF tjobs[t_item].status # "pending"
         THEN /\ tpc' = "idle"
              /\ t_item' = None
              /\ UNCHANGED tjobs
         ELSE /\ tjobs' = [tjobs EXCEPT ![t_item].status = "processing",
                                        ![t_item].started_at = now]
              /\ tpc' = "correct"
              /\ UNCHANGED t_item
    /\ UNCHANGED <<now, mgrVars, t_idle, result, histVars, extractionVars, chunkVars, pureVars, cliVars,
                   t_stale, spc, s_user, cpc, c_job>>

\* mark_failed_or_retry of a typo-check job
typo_failed_or_retry(row) ==
    LET n == row.retry_count + 1
    IN  IF RetryExhausted(n)
          THEN [row EXCEPT !.retry_count = n,
                           !.error_message = "error",
                           !.status = "failed",
                           !.completed_at = now]
          ELSE [row EXCEPT !.retry_count = n,
                           !.error_message = "error",
                           !.status = "pending",
                           !.started_at = None]

\* process_job: the external call returns or raises; a job cancelled in the
\* meantime is left alone, otherwise mark_completed or mark_failed_or_retry
TypoProcessFinish ==
    /\ tpc = "correct"
    /\ \E raised \in BOOLEAN :
         IF tjobs[t_item].status # "processing"
           THEN UNCHANGED tjobs
           ELSE IF raised
                  THEN tjobs' = [tjobs EXCEPT ![t_item] = typo_failed_or_retry(tjobs[t_item])]
                  ELSE tjobs' = [tjobs EXCEPT ![t_item].status = "completed",
                                               ![t_item].completed_at = now]
    /\ tpc' = "idle"
    /\ t_item' = None
    /\ UNCHANGED <<now, mgrVars, t_idle, result, histVars, extractionVars, chunkVars, pureVars, cliVars,
                   t_stale, spc, s_user, cpc, c_job>>

\* the idle branch of the typo tick and _pause
TypoTickIdleLoad == TickIdleLoad

TypoTickIdleStore == TickIdleStore

TypoTickIdleCheck == TickIdleCheck

TypoPause == Pause

\* the process dies during the external call and is started again: the
\* module-level manager and every request in flight are gone, the rows stay
Crash ==
    /\ tpc = "correct"
    /\ scheduler' = "None"
    /\ sjob' = "none"
    /\ is_running' = FALSE
    /\ idle_count' = 0
    /\ lock' = Free
    /\ tpc' = "idle"
    /\ t_idle' = None
    /\ t_item' = None
    /\ t_stale' = {}
    /\ spc' = [s \in DOMAIN spc |-> "idle"]
    /\ s_user' = [s \in DOMAIN spc |-> None]
    /\ cpc' = "idle"
    /\ c_job' = None
    /\ UNCHANGED <<now, tjobs, result, histVars, extractionVars, chunkVars, pureVars, cliVars>>

(***************************************************************************)
(* TypoCheckerService._chunk_text                                          *)
(* A text is a sequence of characters; positions are Python's, from 0.     *)
(***************************************************************************)
\* the characters texts are made of
Chars == {".", " "}

Texts == UNION { [1..n -> Chars] : n \in 0..MaxTextLen }

Max(S) == CHOOSE x \in S : \A y \in S : y <= x

\* s[a:b]
Slice(s, a, b) == SubSeq(s, a + 1, Min(b, Len(s)))

\* s.rfind(sub)
rfind(s, sub) ==
    LET found == { p \in 0..(Len(s) - Len(sub)) : Slice(s, p, p + Len(sub)) = sub }
    IN  IF found = {} THEN -1 ELSE Max(found)

\* [". ", "? ", "! ", ".\n", "?\n", "!\n"]
boundary_chars ==
    { <<".", " ">>, <<"?", " ">>, <<"!", " ">>,
      <<".", "\n">>, <<"?", "\n">>, <<"!", "\n">> }

\* the loop over boundary_char, started from best_boundary = -1
best_boundary(search_text) ==
    Max({-1} \cup { rfind(search_text, b) : b \in boundary_chars })

\* a search for the boundary in the last half of the chunk
search_start_half(pos) == pos + chunk_size \div 2

\* current_pos + int(chunk_size * 0.8)
search_start(pos) == pos + (chunk_size * 8) \div 10

\* end_pos of the chunk that starts at pos
end_pos(pos) ==
    LET window_end == Min(pos + chunk_size, Len(text))
    IN  IF window_end < Len(text)
          THEN LET found == best_boundary(Slice(text, search_start(pos), window_end))
               IN  IF found > 0 THEN search_start(pos) + found + 1 ELSE window_end
          ELSE window_end

\* a chunk that repeats the last character of the chunk before it
chunk_with_overlap(pos) == Slice(text, IF pos > 0 THEN pos - 1 ELSE 0, end_pos(pos))

\* chunk = text[current_pos:end_pos]
chunk(pos) == Slice(text, pos, end_pos(pos))

\* a length test that sends the empty text into the loop
FitsOneChunkNonEmpty == 0 < Len(text) /\ Len(text) <= chunk_size

\* len(text) <= chunk_size
FitsOneChunk == Len(text) <= chunk_size

\* if len(text) <= chunk_size: return [text]
ChunkReturnWhole ==
    /\ kpc = "called"
    /\ FitsOneChunk
    /\ chunks' = <<text>>
    /\ kpc' = "returned"
    /\ UNCHANGED <<text, chunk_size, current_pos>>
    /\ UNCHANGED <<now, mgrVars, tickVars, histVars, extractionVars, typoVars, pureVars, cliVars>>

\* chunks = []; current_pos = 0
ChunkBegin ==
    /\ kpc = "called"
    /\ ~FitsOneChunk
    /\ chunks' = <<>>
    /\ current_pos' = 0
    /\ kpc' = "loop"
    /\ UNCHANGED <<text, chunk_size>>
    /\ UNCHANGED <<now, mgrVars, tickVars, histVars, extractionVars, typoVars, pureVars, cliVars>>

\* one pass of the while loop
ChunkStep ==
    /\ kpc = "loop"
    /\ current_pos < Len(text)
    /\ chunks' = Append(chunks, chunk(current_pos))
    /\ current_pos' = end_pos(current_pos)
    /\ UNCHANGED <<text, chunk_size, kpc>>
    /\ UNCHANGED <<now, mgrVars, tickVars, histVars, extractionVars, typoVars, pureVars, cliVars>>

\* the loop ends: return chunks
ChunkReturn ==
    /\ kpc = "loop"
    /\ current_pos >= Len(text)
    /\ kpc' = "returned"
    /\ UNCHANGED <<text, chunk_size, chunks, current_pos>>
    /\ UNCHANGED <<now, mgrVars, tickVars, histVars, extractionVars, typoVars, pureVars, cliVars>>

\* no _chunk_text call is under way
NoChunking ==
    /\ text = <<>>
    /\ chunk_size = 1
    /\ chunks = <<>>
    /\ current_pos = 0
    /\ kpc = "none"

(***************************************************************************)
(* TypoCheckerService._reconstruct_corrected_text                          *)
(* An issue is the dict of a TypoIssue: original, corrected, position.     *)
(***************************************************************************)
\* the original texts of the model
OriginalTexts == UNION { [1..n -> Chars] : n \in 0..MaxOriginalLen }

\* what a provider may report as an issue's original and corrected snippet
Snippets == { <<>>, <<".">>, <<" ">>, <<".", " ">> }
Corrections == { <<>>, <<".">>, <<"x", "x">> }

Issues ==
    [ original : Snippets, corrected : Corrections, position : -1..MaxOriginalLen ]

IssueLists == UNION { [1..n -> Issues] : n \in {0, 1, 2} }

MinOf(S) == CHOOSE x \in S : \A y \in S : x <= y

\* s.find(sub)
find(s, sub) ==
    LET found == { p \in 0..(Len(s) - Len(sub)) : Slice(s, p, p + Len(sub)) = sub }
    IN  IF found = {} THEN -1 ELSE MinOf(found)

\* s without its k-th element
Remove(s, k) == SubSeq(s, 1, k - 1) \o SubSeq(s, k + 1, Len(s))

RECURSIVE sorted_ascending(_)
\* sorted(issues, key=position): ascending, equal positions in their given order
sorted_ascending(s) ==
    IF s = <<>> THEN <<>>
    ELSE LET least == MinOf({ s[k].position : k \in 1..Len(s) })
             first == MinOf({ k \in 1..Len(s) : s[k].position = least })
         IN  <<s[first]>> \o sorted_ascending(Remove(s, first))

RECURSIVE sorted_reverse(_)
\* sorted(issues, key=position, reverse=True): descending, equal positions in
\* their given order (the sort is stable under reverse)
sorted_reverse(s) ==
    IF s = <<>> THEN <<>>
    ELSE LET greatest == Max({ s[k].position : k \in 1..Len(s) })
             first == MinOf({ k \in 1..Len(s) : s[k].position = greatest })
         IN  <<s[first]>> \o sorted_reverse(Remove(s, first))

\* result[:a] + corrected + result[b:]
splice(res, a, b, corrected) ==
    Slice(res, 0, a) \o corrected \o Slice(res, b, Len(res))

\* the original matches at the issue's position
matches_at(res, issue) ==
    /\ issue.position >= 0
    /\ issue.position < Len(res)
    /\ Slice(res, issue.position, issue.position + Len(issue.original)) = issue.original

\* one pass of the for loop: result after the issue
apply_issue(res, issue) ==
    IF issue.original = <<>> \/ issue.original = issue.corrected
      THEN res
      ELSE IF matches_at(res, issue)
        THEN splice(res, issue.position, issue.position + Len(issue.original),
                    issue.corrected)
        ELSE LET idx == find(res, issue.original)
             IN  IF idx # -1
                   THEN splice(res, idx, idx + Len(issue.original), issue.corrected)
                   ELSE res

RECURSIVE apply_all(_, _)
apply_all(res, todo) ==
    IF todo = <<>> THEN res ELSE apply_all(apply_issue(res, Head(todo)), Tail(todo))

\* the whole call, as check_text uses it
reconstruct_corrected_text(original, found) ==
    IF found = <<>> THEN original ELSE apply_all(original, sorted_reverse(found))

\* if not issues: return original_text
ReconstructReturnOriginal ==
    /\ rpc = "called"
    /\ issues = <<>>
    /\ recon' = original_text
    /\ rpc' = "returned"
    /\ UNCHANGED <<original_text, issues, sorted_issues, r_i>>
    /\ UNCHANGED <<sysVars, chunkVars, checkVars, limiterVars>>

\* sorted_issues = sorted(...); result = original_text
ReconstructSort ==
    /\ rpc = "called"
    /\ issues # <<>>
    /\ sorted_issues' = sorted_reverse(issues)
    /\ recon' = original_text
    /\ r_i' = 0
    /\ rpc' = "loop"
    /\ UNCHANGED <<original_text, issues>>
    /\ UNCHANGED <<sysVars, chunkVars, checkVars, limiterVars>>

\* one pass of the for loop
ReconstructStep ==
    /\ rpc = "loop"
    /\ r_i < Len(sorted_issues)
    /\ recon' = apply_issue(recon, sorted_issues[r_i + 1])
    /\ r_i' = r_i + 1
    /\ UNCHANGED <<original_text, issues, sorted_issues, rpc>>
    /\ UNCHANGED <<sysVars, chunkVars, checkVars, limiterVars>>

\* the loop ends: return result
ReconstructReturn ==
    /\ rpc = "loop"
    /\ r_i = Len(sorted_issues)
    /\ rpc' = "returned"
    /\ UNCHANGED <<original_text, issues, sorted_issues, recon, r_i>>
    /\ UNCHANGED <<sysVars, chunkVars, checkVars, limiterVars>>

\* no _reconstruct_corrected_text call is under way
NoReconstruct ==
    /\ original_text = <<>>
    /\ issues = <<>>
    /\ sorted_issues = <<>>
    /\ recon = <<>>
    /\ r_i = 0
    /\ rpc = "none"

RECURSIVE Concat(_)
\* "".join(parts)
Concat(parts) == IF parts = <<>> THEN <<>> ELSE Head(parts) \o Concat(Tail(parts))

(***************************************************************************)
(* TypoCheckerService.check_text, for one user and one text.  chunk_size   *)
(* stands for DEFAULT_CHUNK_SIZE; every text of the model is shorter than  *)
(* MAX_TEXT_LENGTH.                                                        *)
(***************************************************************************)
CheckTexts == UNION { [1..n -> Chars] : n \in 0..MaxCheckLen }

\* not text or not text.strip()
is_blank(t) == \A k \in 1..Len(t) : t[k] = " "

\* what ai_provider.check_typo(chunk) may return on success: any corrected
\* text and any issues at positions of the chunk
ReplyIssues(part) ==
    [ original : {<<".">>}, corrected : {<<"x", "x">>}, position : 0..(Len(part) - 1) ]

Replies(part) ==
    [ corrected_text : { <<>>, <<"x">>, <<"x", "x">> },
      issues : UNION { [1..n -> ReplyIssues(part)] : n \in {0, 1, 2} } ]

\* the return value of a failed call
check_failed(message) ==
    [ success |-> FALSE, error |-> message, corrected_text |-> <<>>,
      issues |-> <<>>, cached |-> FALSE ]

\* issue_dict["position"] += current_position, for every issue of the reply
adjusted(found, offset) ==
    [ k \in 1..Len(found) |->
        [ found[k] EXCEPT !.position = found[k].position + offset ] ]

\* a position counter that advances by the length of the corrected chunk
next_position_corrected(pos, part, reply) == pos + Len(reply.corrected_text)

\* current_position += len(chunk)
next_position(pos, part, reply) == pos + Len(part)

\* a threshold that also takes exactly half of the length for truncated
is_truncated_or_half(corrected) == Len(corrected) * 2 <= Len(text)

\* len(final_corrected) < len(text) * 0.5
is_truncated(corrected) == Len(corrected) * 2 < Len(text)

\* filter_by(user_id=user_id, original_text_hash=text_hash).first()
cached_result == stored[1]

\* if cached_result:
has_cached_result == stored # <<>>

\* if not text or not text.strip(): return the error
CheckReject ==
    /\ apc = "called"
    /\ is_blank(text)
    /\ check_result' = check_failed("Text cannot be empty")
    /\ apc' = "returned"
    /\ UNCHANGED <<c_i, all_issues, corrected_chunks, current_position,
                   final_corrected, replies, stored>>
    /\ UNCHANGED <<sysVars, chunkVars, reconVars, limiterVars>>

\* if cached_result: return it
CheckCached ==
    /\ apc = "called"
    /\ ~is_blank(text)
    /\ has_cached_result
    /\ check_result' = [ success |-> TRUE, error |-> "none",
                         corrected_text |-> cached_result.corrected_text,
                         issues |-> cached_result.issues, cached |-> TRUE ]
    /\ apc' = "returned"
    /\ UNCHANGED <<c_i, all_issues, corrected_chunks, current_position,
                   final_corrected, replies, stored>>
    /\ UNCHANGED <<sysVars, chunkVars, reconVars, limiterVars>>

\* the named provider is not available, or no provider is
CheckNoProvider ==
    /\ apc = "called"
    /\ ~is_blank(text)
    /\ ~has_cached_result
    /\ check_result' = check_failed("No AI provider is available")
    /\ apc' = "returned"
    /\ UNCHANGED <<c_i, all_issues, corrected_chunks, current_position,
                   final_corrected, replies, stored>>
    /\ UNCHANGED <<sysVars, chunkVars, reconVars, limiterVars>>

\* chunks = TypoCheckerService._chunk_text(text): the call begins
CheckChunkText ==
    /\ apc = "called"
    /\ ~is_blank(text)
    /\ ~has_cached_result
    /\ kpc' = "called"
    /\ chunks' = <<>>
    /\ current_pos' = 0
    /\ apc' = "chunking"
    /\ UNCHANGED <<text, chunk_size>>
    /\ UNCHANGED <<c_i, all_issues, corrected_chunks, current_position,
                   final_corrected, replies, stored, check_result>>
    /\ UNCHANGED <<sysVars, reconVars, limiterVars>>

\* _chunk_text has returned: all_issues = []; corrected_chunks = [];
\* current_position = 0
CheckBegin ==
    /\ apc = "chunking"
    /\ kpc = "returned"
    /\ all_issues' = <<>>
    /\ corrected_chunks' = <<>>
    /\ current_position' = 0
    /\ c_i' = 0
    /\ replies' = <<>>
    /\ apc' = "loop"
    /\ UNCHANGED <<final_corrected, stored, check_result>>
    /\ UNCHANGED <<sysVars, chunkVars, reconVars, limiterVars>>

\* a failing pass that stores what the chunks before it have produced
CheckChunkFailsStoring ==
    /\ apc = "loop"
    /\ c_i < Len(chunks)
    /\ check_result' = check_failed("Failed to check typos")
    /\ stored' = Append(stored, [ corrected_text |-> Concat(corrected_chunks),
                                  issues |-> all_issues ])
    /\ apc' = "returned"
    /\ UNCHANGED <<c_i, all_issues, corrected_chunks, current_position,
                   final_corrected, replies>>
    /\ UNCHANGED <<sysVars, chunkVars, reconVars, limiterVars>>

\* a pass of the for loop whose check_typo reports failure
CheckChunkFails ==
    /\ apc = "loop"
    /\ c_i < Len(chunks)
    /\ check_result' = check_failed("Failed to check typos")
    /\ apc' = "returned"
    /\ UNCHANGED <<c_i, all_issues, corrected_chunks, current_position,
                   final_corrected, replies, stored>>
    /\ UNCHANGED <<sysVars, chunkVars, reconVars, limiterVars>>

\* a pass of the for loop whose check_typo succeeds
CheckChunkOk ==
    /\ apc = "loop"
    /\ c_i < Len(chunks)
    /\ \E reply \in Replies(chunks[c_i + 1]) :
          /\ corrected_chunks' = Append(corrected_chunks, reply.corrected_text)
          /\ all_issues' = all_issues \o adjusted(reply.issues, current_position)
          /\ current_position' = next_position(current_position, chunks[c_i + 1], reply)
          /\ replies' = Append(replies, reply)
    /\ c_i' = c_i + 1
    /\ UNCHANGED <<apc, final_corrected, stored, check_result>>
    /\ UNCHANGED <<sysVars, chunkVars, reconVars, limiterVars>>

\* final_corrected = "".join(corrected_chunks)
CheckJoin ==
    /\ apc = "loop"
    /\ c_i = Len(chunks)
    /\ final_corrected' = Concat(corrected_chunks)
    /\ apc' = "joined"
    /\ UNCHANGED <<c_i, all_issues, corrected_chunks, current_position,
                   replies, stored, check_result>>
    /\ UNCHANGED <<sysVars, chunkVars, reconVars, limiterVars>>

\* the reconstruction if the joined text is truncated, the commit of the
\* TypoCheckResult row and the return
CheckStore ==
    /\ apc = "joined"
    /\ final_corrected' =
          IF is_truncated(final_corrected)
            THEN reconstruct_corrected_text(text, all_issues)
            ELSE final_corrected
    /\ stored' = Append(stored, [ corrected_text |-> final_corrected',
                                  issues |-> all_issues ])
    /\ check_result' = [ success |-> TRUE, error |-> "none",
                         corrected_text |-> final_corrected',
                         issues |-> all_issues, cached |-> FALSE ]
    /\ apc' = "returned"
    /\ UNCHANGED <<c_i, all_issues, corrected_chunks, current_position, replies>>
    /\ UNCHANGED <<sysVars, chunkVars, reconVars, limiterVars>>

\* the same user checks the same text again
CheckAgain ==
    /\ apc = "returned"
    /\ ~check_result.cached
    /\ apc' = "called"
    /\ UNCHANGED <<c_i, all_issues, corrected_chunks, current_position,
                   final_corrected, replies, stored, check_result>>
    /\ UNCHANGED <<sysVars, chunkVars, reconVars, limiterVars>>

\* no check_text call is under way
NoCheckText ==
    /\ apc = "none"
    /\ c_i = 0
    /\ all_issues = <<>>
    /\ corrected_chunks = <<>>
    /\ current_position = 0
    /\ final_corrected = <<>>
    /\ replies = <<>>
    /\ stored = <<>>
    /\ check_result = None

(***************************************************************************)
(* RateLimiter (app/utils/rate_limiter.py), per_seconds = 1.               *)
(* The clock ticks TicksPerToken times in 1/rate seconds and a token count *)
(* is kept in ticks of refill: tokens = _tokens * TicksPerToken.  age is   *)
(* time.monotonic() - _last_update, cut off where the bucket is full.      *)
(***************************************************************************)
Callers == {1, 2}

\* the timeouts of a blocking acquire, in ticks; None is timeout=None
Timeouts == {None, 0, 2}

\* poll_interval = 0.01, in ticks
PollTicks == 1

\* float(self.rate), in ticks of refill
Full == rate * TicksPerToken

\* a test that takes any fraction of a token for a token
has_any_token(count) == count > 0

\* self._tokens >= 1
has_token(count) == count >= TicksPerToken

\* a lock that lets every thread in
can_lock_always == TRUE

\* with self._lock: the lock can be taken
can_lock == llock = Free

\* a timeout test that fires one tick early
timed_out_early(elapsed, timeout) == elapsed + 1 >= timeout

\* elapsed >= timeout
timed_out(elapsed, timeout) == elapsed >= timeout

InRefill(t) == lpc[t] \in {"refill_load", "refill_store", "refill_stamp"}

AllIdle == \A t \in Callers : lpc[t] = "idle"

\* history of the calls: they begin a new phase after a wait
HistCall ==
    /\ h_phase' = IF h_phase = "waiting" THEN "after" ELSE h_phase
    /\ UNCHANGED <<h_wait, h_granted, h_denied>>

\* history of a return of acquire
HistReturn(value) ==
    /\ h_granted' = IF value /\ h_phase # "off" THEN h_granted + 1 ELSE h_granted
    /\ h_denied' = IF ~value /\ h_phase # "off" THEN Min(h_denied + 1, 2) ELSE h_denied
    /\ UNCHANGED <<h_phase, h_wait>>

\* history of a tick of the clock: a wait begins when the bucket has been
\* emptied and a call refused with no time elapsing, and goes on while no
\* call is made
HistTick(cap) ==
    LET emptied == h_phase = "burst" /\ AllIdle /\ h_granted = rate /\ h_denied > 0
        waits == emptied \/ h_phase = "waiting"
    IN  /\ h_phase' = IF waits THEN "waiting" ELSE "off"
        /\ h_wait' = IF waits THEN Min(h_wait + 1, cap) ELSE 0
        /\ h_granted' = 0
        /\ h_denied' = 0

\* acquire() or acquire(wait=False) is called
CallTry(t) ==
    /\ lpc[t] = "idle"
    /\ op' = [op EXCEPT ![t] = "try"]
    /\ lpc' = [lpc EXCEPT ![t] = "lock"]
    /\ ret' = [ret EXCEPT ![t] = "none"]
    /\ HistCall
    /\ UNCHANGED <<rate, tokens, age, llock, l_elapsed, l_since, l_tokens,
                   l_timeout, waited, nap, h_reads>>
    /\ UNCHANGED <<sysVars, chunkVars, reconVars, checkVars>>

\* acquire(wait=True, timeout=timeout) is called: start_time = time.monotonic()
CallWait(t, timeout) ==
    /\ lpc[t] = "idle"
    /\ op' = [op EXCEPT ![t] = "wait"]
    /\ l_timeout' = [l_timeout EXCEPT ![t] = timeout]
    /\ waited' = [waited EXCEPT ![t] = 0]
    /\ lpc' = [lpc EXCEPT ![t] = "lock"]
    /\ ret' = [ret EXCEPT ![t] = "none"]
    /\ HistCall
    /\ UNCHANGED <<rate, tokens, age, llock, l_elapsed, l_since, l_tokens,
                   nap, h_reads>>
    /\ UNCHANGED <<sysVars, chunkVars, reconVars, checkVars>>

\* the tokens property is read: _refill() is entered without the lock
CallTokens(t) ==
    /\ lpc[t] = "idle"
    /\ h_reads < MaxReads
    /\ h_reads' = h_reads + 1
    /\ op' = [op EXCEPT ![t] = "tokens"]
    /\ lpc' = [lpc EXCEPT ![t] = "refill_now"]
    /\ ret' = [ret EXCEPT ![t] = "none"]
    /\ HistCall
    /\ UNCHANGED <<rate, tokens, age, llock, l_elapsed, l_since, l_tokens,
                   l_timeout, waited, nap>>
    /\ UNCHANGED <<sysVars, chunkVars, reconVars, checkVars>>

\* reset() is called
CallReset(t) ==
    /\ lpc[t] = "idle"
    /\ op' = [op EXCEPT ![t] = "reset"]
    /\ lpc' = [lpc EXCEPT ![t] = "lock"]
    /\ ret' = [ret EXCEPT ![t] = "none"]
    /\ h_phase' = "off"
    /\ h_wait' = 0
    /\ h_granted' = 0
    /\ h_denied' = 0
    /\ UNCHANGED <<rate, tokens, age, llock, l_elapsed, l_since, l_tokens,
                   l_timeout, waited, nap, h_reads>>
    /\ UNCHANGED <<sysVars, chunkVars, reconVars, checkVars>>

\* with self._lock: the lock is taken
Lock(t) ==
    /\ lpc[t] = "lock"
    /\ can_lock
    /\ llock' = t
    /\ lpc' = [lpc EXCEPT ![t] = IF op[t] = "reset" THEN "reset_tokens" ELSE "refill_now"]
    /\ UNCHANGED <<rate, tokens, age, op, l_elapsed, l_since, l_tokens,
                   l_timeout, waited, nap, ret, limiterHist>>
    /\ UNCHANGED <<sysVars, chunkVars, reconVars, checkVars>>

\* _refill: now = time.monotonic(); elapsed = now - self._last_update
RefillNow(t) ==
    /\ lpc[t] = "refill_now"
    /\ l_elapsed' = [l_elapsed EXCEPT ![t] = age]
    /\ l_since' = [l_since EXCEPT ![t] = 0]
    /\ lpc' = [lpc EXCEPT ![t] = "refill_load"]
    /\ UNCHANGED <<rate, tokens, age, llock, op, l_tokens,
                   l_timeout, waited, nap, ret, limiterHist>>
    /\ UNCHANGED <<sysVars, chunkVars, reconVars, checkVars>>

\* _refill: self._tokens is read for self._tokens + tokens_to_add
RefillLoad(t) ==
    /\ lpc[t] = "refill_load"
    /\ l_tokens' = [l_tokens EXCEPT ![t] = tokens]
    /\ lpc' = [lpc EXCEPT ![t] = "refill_store"]
    /\ UNCHANGED <<rate, tokens, age, llock, op, l_elapsed, l_since,
                   l_timeout, waited, nap, ret, limiterHist>>
    /\ UNCHANGED <<sysVars, chunkVars, reconVars, checkVars>>

\* _refill: self._tokens = min(self.rate, self._tokens + tokens_to_add)
RefillStore(t) ==
    /\ lpc[t] = "refill_store"
    /\ tokens' = Min(Full, l_tokens[t] + l_elapsed[t])
    /\ lpc' = [lpc EXCEPT ![t] = "refill_stamp"]
    /\ UNCHANGED <<rate, age, llock, op, l_elapsed, l_since, l_tokens,
                   l_timeout, waited, nap, ret, limiterHist>>
    /\ UNCHANGED <<sysVars, chunkVars, reconVars, checkVars>>

\* _refill: self._last_update = now
RefillStamp(t) ==
    /\ lpc[t] = "refill_stamp"
    /\ age' = l_since[t]
    /\ l_since' = [l_since EXCEPT ![t] = 0]
    /\ l_elapsed' = [l_elapsed EXCEPT ![t] = 0]
    /\ l_tokens' = [l_tokens EXCEPT ![t] = 0]
    /\ lpc' = [lpc EXCEPT ![t] = IF op[t] = "tokens" THEN "read" ELSE "check"]
    /\ UNCHANGED <<rate, tokens, llock, op,
                   l_timeout, waited, nap, ret, limiterHist>>
    /\ UNCHANGED <<sysVars, chunkVars, reconVars, checkVars>>

\* tokens: return self._tokens (the value read stays in l_tokens)
ReadReturn(t) ==
    /\ lpc[t] = "read"
    /\ l_tokens' = [l_tokens EXCEPT ![t] = tokens]
    /\ ret' = [ret EXCEPT ![t] = "tokens"]
    /\ op' = [op EXCEPT ![t] = "none"]
    /\ lpc' = [lpc EXCEPT ![t] = "idle"]
    /\ UNCHANGED <<rate, tokens, age, llock, l_elapsed, l_since,
                   l_timeout, waited, nap, limiterHist>>
    /\ UNCHANGED <<sysVars, chunkVars, reconVars, checkVars>>

\* _try_acquire: if self._tokens >= 1
TryCheck(t) ==
    /\ lpc[t] = "check"
    /\ lpc' = [lpc EXCEPT ![t] = IF has_token(tokens) THEN "dec_load" ELSE "unlock_false"]
    /\ UNCHANGED <<rate, tokens, age, llock, op, l_elapsed, l_since, l_tokens,
                   l_timeout, waited, nap, ret, limiterHist>>
    /\ UNCHANGED <<sysVars, chunkVars, reconVars, checkVars>>

\* _try_acquire: self._tokens -= 1, the read
DecLoad(t) ==
    /\ lpc[t] = "dec_load"
    /\ l_tokens' = [l_tokens EXCEPT ![t] = tokens]
    /\ lpc' = [lpc EXCEPT ![t] = "dec_store"]
    /\ UNCHANGED <<rate, tokens, age, llock, op, l_elapsed, l_since,
                   l_timeout, waited, nap, ret, limiterHist>>
    /\ UNCHANGED <<sysVars, chunkVars, reconVars, checkVars>>

\* _try_acquire: self._tokens -= 1, the write
DecStore(t) ==
    /\ lpc[t] = "dec_store"
    /\ tokens' = l_tokens[t] - TicksPerToken
    /\ l_tokens' = [l_tokens EXCEPT ![t] = 0]
    /\ lpc' = [lpc EXCEPT ![t] = "unlock_true"]
    /\ UNCHANGED <<rate, age, llock, op, l_elapsed, l_since,
                   l_timeout, waited, nap, ret, limiterHist>>
    /\ UNCHANGED <<sysVars, chunkVars, reconVars, checkVars>>

\* return True: the lock is released and acquire returns True
ReturnTrue(t) ==
    /\ lpc[t] = "unlock_true"
    /\ llock' = Free
    /\ ret' = [ret EXCEPT ![t] = "True"]
    /\ op' = [op EXCEPT ![t] = "none"]
    /\ lpc' = [lpc EXCEPT ![t] = "idle"]
    /\ l_timeout' = [l_timeout EXCEPT ![t] = None]
    /\ waited' = [waited EXCEPT ![t] = 0]
    /\ HistReturn(TRUE)
    /\ UNCHANGED <<rate, tokens, age, l_elapsed, l_since, l_tokens, nap, h_reads>>
    /\ UNCHANGED <<sysVars, chunkVars, reconVars, checkVars>>

\* return False of _try_acquire under acquire(wait=False)
ReturnFalse(t) ==
    /\ lpc[t] = "unlock_false"
    /\ op[t] = "try"
    /\ llock' = Free
    /\ ret' = [ret EXCEPT ![t] = "False"]
    /\ op' = [op EXCEPT ![t] = "none"]
    /\ lpc' = [lpc EXCEPT ![t] = "idle"]
    /\ HistReturn(FALSE)
    /\ UNCHANGED <<rate, tokens, age, l_elapsed, l_since, l_tokens,
                   l_timeout, waited, nap, h_reads>>
    /\ UNCHANGED <<sysVars, chunkVars, reconVars, checkVars>>

\* return False of _try_acquire inside the loop of _acquire_with_wait
PollFailed(t) ==
    /\ lpc[t] = "unlock_false"
    /\ op[t] = "wait"
    /\ llock' = Free
    /\ lpc' = [lpc EXCEPT ![t] = "timeout"]
    /\ UNCHANGED <<rate, tokens, age, op, l_elapsed, l_since, l_tokens,
                   l_timeout, waited, nap, ret, limiterHist>>
    /\ UNCHANGED <<sysVars, chunkVars, reconVars, checkVars>>

\* if timeout is not None and elapsed >= timeout: return False
TimedOut(t) ==
    /\ lpc[t] = "timeout"
    /\ l_timeout[t] # None
    /\ timed_out(waited[t], l_timeout[t])
    /\ ret' = [ret EXCEPT ![t] = "False"]
    /\ op' = [op EXCEPT ![t] = "none"]
    /\ lpc' = [lpc EXCEPT ![t] = "idle"]
    /\ l_timeout' = [l_timeout EXCEPT ![t] = None]
    /\ HistReturn(FALSE)
    /\ UNCHANGED <<rate, tokens, age, llock, l_elapsed, l_since, l_tokens,
                   waited, nap, h_reads>>
    /\ UNCHANGED <<sysVars, chunkVars, reconVars, checkVars>>

\* time.sleep(poll_interval) begins
SleepBegin(t) ==
    /\ lpc[t] = "timeout"
    /\ l_timeout[t] = None \/ ~timed_out(waited[t], l_timeout[t])
    /\ nap' = [nap EXCEPT ![t] = PollTicks]
    /\ lpc' = [lpc EXCEPT ![t] = "sleep"]
    /\ UNCHANGED <<rate, tokens, age, llock, op, l_elapsed, l_since, l_tokens,
                   l_timeout, waited, ret, limiterHist>>
    /\ UNCHANGED <<sysVars, chunkVars, reconVars, checkVars>>

\* time.sleep(poll_interval) returns: the loop polls again
SleepEnd(t) ==
    /\ lpc[t] = "sleep"
    /\ nap[t] = 0
    /\ lpc' = [lpc EXCEPT ![t] = "lock"]
    /\ UNCHANGED <<rate, tokens, age, llock, op, l_elapsed, l_since, l_tokens,
                   l_timeout, waited, nap, ret, limiterHist>>
    /\ UNCHANGED <<sysVars, chunkVars, reconVars, checkVars>>

\* reset: self._tokens = float(self.rate)
ResetTokens(t) ==
    /\ lpc[t] = "reset_tokens"
    /\ tokens' = Full
    /\ lpc' = [lpc EXCEPT ![t] = "reset_stamp"]
    /\ UNCHANGED <<rate, age, llock, op, l_elapsed, l_since, l_tokens,
                   l_timeout, waited, nap, ret, limiterHist>>
    /\ UNCHANGED <<sysVars, chunkVars, reconVars, checkVars>>

\* reset: self._last_update = time.monotonic(), and the lock is released
ResetStamp(t) ==
    /\ lpc[t] = "reset_stamp"
    /\ age' = 0
    /\ llock' = Free
    /\ op' = [op EXCEPT ![t] = "none"]
    /\ lpc' = [lpc EXCEPT ![t] = "idle"]
    /\ UNCHANGED <<rate, tokens, l_elapsed, l_since, l_tokens,
                   l_timeout, waited, nap, ret, limiterHist>>
    /\ UNCHANGED <<sysVars, chunkVars, reconVars, checkVars>>

\* the monotonic clock ticks; extra is what the token count may lie below 0
Tick(extra) ==
    LET cap == Full + extra * TicksPerToken
    IN  /\ age' = Min(age + 1, cap)
        /\ l_since' = [t \in Callers |->
                         IF InRefill(t) THEN Min(l_since[t] + 1, cap) ELSE l_since[t]]
        /\ waited' = [t \in Callers |->
                         IF op[t] = "wait" /\ l_timeout[t] # None
                           THEN Min(waited[t] + 1, l_timeout[t]) ELSE waited[t]]
        /\ nap' = [t \in Callers |->
                         IF lpc[t] = "sleep" /\ nap[t] > 0 THEN nap[t] - 1 ELSE nap[t]]
        /\ HistTick(Full)
        /\ UNCHANGED <<rate, tokens, llock, lpc, op, l_elapsed, l_tokens,
                       l_timeout, ret, h_reads>>
        /\ UNCHANGED <<sysVars, chunkVars, reconVars, checkVars>>

\* no RateLimiter has been constructed
NoLimiter ==
    /\ rate = 0
    /\ tokens = 0
    /\ age = 0
    /\ llock = Free
    /\ lpc = [t \in Callers |-> "none"]
    /\ op = [t \in Callers |-> "none"]
    /\ l_elapsed = [t \in Callers |-> 0]
    /\ l_since = [t \in Callers |-> 0]
    /\ l_tokens = [t \in Callers |-> 0]
    /\ l_timeout = [t \in Callers |-> None]
    /\ waited = [t \in Callers |-> 0]
    /\ nap = [t \in Callers |-> 0]
    /\ ret = [t \in Callers |-> "none"]
    /\ h_phase = "off"
    /\ h_wait = 0
    /\ h_granted = 0
    /\ h_denied = 0
    /\ h_reads = 0

\* the state after import: no row, the manager as __init__ leaves it, and
\* the given submit requests not yet begun
InitWith(requests) ==
    /\ queue = <<>>
    /\ now = 0
    /\ scheduler = "None"
    /\ sjob = "none"
    /\ is_running = FALSE
    /\ idle_count = 0
    /\ lock = Free
    /\ tpc = "idle"
    /\ t_idle = None
    /\ t_item = None
    /\ ppc = [p \in Producers |-> "idle"]
    /\ result = "none"
    /\ wakes = 0
    /\ empties = 0
    /\ resumed = FALSE
    /\ tjobs = <<>>
    /\ t_stale = {}
    /\ spc = [s \in requests |-> "idle"]
    /\ s_user = [s \in requests |-> None]
    /\ cpc = "idle"
    /\ c_job = None
    /\ cli_pc = "idle"
    /\ cli_item = None
    /\ cli_retry = None

NoPure == NoReconstruct /\ NoCheckText /\ NoLimiter

Init == InitWith(Submitters) /\ NoChunking /\ NoPure

\* one submit request at a time
InitTypo == InitWith({1}) /\ NoChunking /\ NoPure

\* the application as deployed: every enqueue is an upload followed by wake_up
Next ==
    \/ \E p \in Producers : Upload(p)
    \/ InitWorker
    \/ \E p \in Producers : WakeUp(p)
    \/ Shutdown
    \/ TickCount
    \/ TickIdleLoad
    \/ TickIdleStore
    \/ TickIdleCheck
    \/ Pause
    \/ ProcessNextClaim
    \/ ProcessNextFinish
    \/ TickReturn
    \/ Advance(MaxTime)

Spec == Init /\ [][Next]_vars

\* the queue under direct calls of add_to_queue (any priority, any
\* document_id) and a worker that is started and never woken
NextQueue ==
    \/ AddToQueue
    \/ InitWorker
    \/ TickCount
    \/ TickIdleLoad
    \/ TickIdleStore
    \/ TickIdleCheck
    \/ Pause
    \/ ProcessNextClaim
    \/ ProcessNextFinish
    \/ TickReturn
    \/ Advance(MaxTime)

SpecQueue == Init /\ [][NextQueue]_vars

\* the worker's ticks and the process-queue command on the same queue
NextCli ==
    \/ AddToQueue
    \/ InitWorker
    \/ TickCount
    \/ TickIdleLoad
    \/ TickIdleStore
    \/ TickIdleCheck
    \/ Pause
    \/ ProcessNextClaim
    \/ ProcessNextFinish
    \/ TickReturn
    \/ CliCount
    \/ CliSelect
    \/ CliClaim
    \/ CliExtract
    \/ CliFail

SpecCli == Init /\ [][NextCli]_vars

\* the queue and a worker whose process may die during an extraction, over
\* a time longer than the stale window
NextStale ==
    \/ AddToQueue
    \/ InitWorker
    \/ TickCount
    \/ TickIdleLoad
    \/ TickIdleStore
    \/ TickIdleCheck
    \/ Pause
    \/ ProcessNextClaim
    \/ ProcessNextFinish
    \/ TickReturn
    \/ ExtractionCrash
    \/ Advance(MaxTypoTime)

SpecStale == Init /\ [][NextStale]_vars

\* the typo-check pipeline: submit and cancel requests, the typo worker
NextTypo ==
    \/ \E s \in Submitters : SubmitCheck(s)
    \/ \E s \in Submitters : SubmitInsert(s, MaxTypoJobs)
    \/ \E s \in Submitters : TypoWakeUp(s)
    \/ CancelLoad
    \/ CancelCommit
    \/ TypoInitWorker
    \/ TypoTickSweepQuery
    \/ TypoTickSelect
    \/ TypoProcessClaim
    \/ TypoProcessFinish
    \/ TypoTickIdleLoad
    \/ TypoTickIdleStore
    \/ TypoTickIdleCheck
    \/ TypoPause
    \/ Crash
    \/ Advance(MaxTypoTime)

SpecTypo == InitTypo /\ [][NextTypo]_vars

\* one step of the typo worker's tick
TypoTick ==
    \/ TypoTickSweepQuery
    \/ TypoTickSelect
    \/ TypoProcessClaim
    \/ TypoProcessFinish
    \/ TypoTickIdleLoad
    \/ TypoTickIdleStore
    \/ TypoTickIdleCheck
    \/ TypoPause

\* the typo worker under fair scheduling: a restarted process starts its
\* worker, the interval trigger keeps firing the job while it is scheduled,
\* a tick that has begun runs to its end, and time passes; no request is
\* ever forced to arrive
SpecTypoFair ==
    /\ InitTypo
    /\ [][NextTypo]_vars
    /\ WF_vars(TypoInitWorker)
    /\ WF_vars(TypoTick)
    /\ WF_vars(Advance(MaxTypoTime))

\* submit and cancel requests alone, as long as no worker tick runs
NextSubmit ==
    \/ \E s \in Submitters : SubmitCheck(s)
    \/ \E s \in Submitters : SubmitInsert(s, MaxSubmits)
    \/ \E s \in Submitters : TypoWakeUp(s)
    \/ CancelLoad
    \/ CancelCommit
    \/ TypoInitWorker
    \/ Advance(MaxTime)

SpecSubmit == Init /\ [][NextSubmit]_vars

\* a call of _chunk_text on any text and chunk_size of the model
InitChunk ==
    /\ InitWith(Submitters)
    /\ NoPure
    /\ text \in Texts
    /\ chunk_size \in 1..MaxChunkSize
    /\ chunks = <<>>
    /\ current_pos = 0
    /\ kpc = "called"

NextChunk ==
    \/ ChunkReturnWhole
    \/ ChunkBegin
    \/ ChunkStep
    \/ ChunkReturn

SpecChunk == InitChunk /\ [][NextChunk]_vars

\* a call of _reconstruct_corrected_text on any text and issue list of the model
InitReconstruct ==
    /\ InitWith(Submitters)
    /\ NoChunking
    /\ NoCheckText
    /\ NoLimiter
    /\ original_text \in OriginalTexts
    /\ issues \in IssueLists
    /\ sorted_issues = <<>>
    /\ recon = <<>>
    /\ r_i = 0
    /\ rpc = "called"

NextReconstruct ==
    \/ ReconstructReturnOriginal
    \/ ReconstructSort
    \/ ReconstructStep
    \/ ReconstructReturn

SpecReconstruct == InitReconstruct /\ [][NextReconstruct]_vars

\* a first call of check_text on any text of the model, nothing stored yet
InitCheckText ==
    /\ InitWith(Submitters)
    /\ NoReconstruct
    /\ NoLimiter
    /\ text \in CheckTexts
    /\ chunk_size \in 1..MaxCheckChunk
    /\ chunks = <<>>
    /\ current_pos = 0
    /\ kpc = "none"
    /\ apc = "called"
    /\ c_i = 0
    /\ all_issues = <<>>
    /\ corrected_chunks = <<>>
    /\ current_position = 0
    /\ final_corrected = <<>>
    /\ replies = <<>>
    /\ stored = <<>>
    /\ check_result = None

NextCheckText ==
    \/ CheckReject
    \/ CheckCached
    \/ CheckNoProvider
    \/ CheckChunkText
    \/ ChunkReturnWhole
    \/ ChunkBegin
    \/ ChunkStep
    \/ ChunkReturn
    \/ CheckBegin
    \/ CheckChunkFails
    \/ CheckChunkOk
    \/ CheckJoin
    \/ CheckStore
    \/ CheckAgain

SpecCheckText == InitCheckText /\ [][NextCheckText]_vars

\* RateLimiter(rate=rate, per_seconds=1) has just been constructed
InitLimiter ==
    /\ InitWith(Submitters)
    /\ NoChunking
    /\ NoReconstruct
    /\ NoCheckText
    /\ rate \in 1..MaxRate
    /\ tokens = Full
    /\ age = 0
    /\ llock = Free
    /\ lpc = [t \in Callers |-> "idle"]
    /\ op = [t \in Callers |-> "none"]
    /\ l_elapsed = [t \in Callers |-> 0]
    /\ l_since = [t \in Callers |-> 0]
    /\ l_tokens = [t \in Callers |-> 0]
    /\ l_timeout = [t \in Callers |-> None]
    /\ waited = [t \in Callers |-> 0]
    /\ nap = [t \in Callers |-> 0]
    /\ ret = [t \in Callers |-> "none"]
    /\ h_phase = "burst"
    /\ h_wait = 0
    /\ h_granted = 0
    /\ h_denied = 0
    /\ h_reads = 0

\* the steps of acquire(wait=False) of one thread
TrySteps(t) ==
    \/ Lock(t)
    \/ RefillNow(t)
    \/ RefillLoad(t)
    \/ RefillStore(t)
    \/ RefillStamp(t)
    \/ TryCheck(t)
    \/ DecLoad(t)
    \/ DecStore(t)
    \/ ReturnTrue(t)
    \/ ReturnFalse(t)

\* one thread that calls acquire() again and again
NextLimiterSeq ==
    \/ CallTry(1)
    \/ TrySteps(1)
    \/ Tick(0)

SpecLimiterSeq == InitLimiter /\ [][NextLimiterSeq]_vars

\* threads that call acquire() concurrently
NextLimiter ==
    \/ \E t \in Callers : CallTry(t)
    \/ \E t \in Callers : TrySteps(t)
    \/ Tick(0)

SpecLimiter == InitLimiter /\ [][NextLimiter]_vars

\* threads that call acquire(), reset() and read tokens concurrently
NextLimiterRead ==
    \/ \E t \in Callers : CallTry(t)
    \/ \E t \in Callers : CallTokens(t)
    \/ \E t \in Callers : CallReset(t)
    \/ \E t \in Callers : TrySteps(t)
    \/ \E t \in Callers : ReadReturn(t)
    \/ \E t \in Callers : ResetTokens(t)
    \/ \E t \in Callers : ResetStamp(t)
    \/ Tick(MaxReads)

SpecLimiterRead == InitLimiter /\ [][NextLimiterRead]_vars

\* the steps of acquire(wait=True) of one thread
WaitSteps(t) ==
    \/ TrySteps(t)
    \/ PollFailed(t)
    \/ TimedOut(t)
    \/ SleepBegin(t)
    \/ SleepEnd(t)

\* thread 1 calls acquire(wait=True, timeout) while thread 2 calls acquire()
NextLimiterWait ==
    \/ \E timeout \in Timeouts : CallWait(1, timeout)
    \/ WaitSteps(1)
    \/ CallTry(2)
    \/ TrySteps(2)
    \/ Tick(0)

\* a thread inside a call goes on running, a thread that waits for the lock
\* gets it when it is released again and again, and the clock goes on
SpecLimiterWaitFair ==
    /\ InitLimiter
    /\ [][NextLimiterWait]_vars
    /\ \A t \in Callers : SF_vars(Lock(t))
    /\ \A t \in Callers : WF_vars(WaitSteps(t))
    /\ WF_vars(Tick(0))

(***************************************************************************)
(* Properties                                                              *)
(***************************************************************************)
ClaimStep == tpc = "process_next" /\ tpc' # "process_next"

\* C1: the row process_next selects is a pending row of the highest priority
\* among the pending rows and, among those of that priority, of the earliest
\* created_at; with no pending row nothing is selected and nothing changes.
C1_NextPendingOrder ==
    [][ ClaimStep =>
          IF Pending = {}
            THEN t_item' = None /\ queue' = queue
            ELSE /\ t_item' \in Pending
                 /\ \A k \in Pending :
                       /\ queue[k].priority <= queue[t_item'].priority
                       /\ queue[k].priority = queue[t_item'].priority
                            => queue[k].created_at >= queue[t_item'].created_at ]_vars

\* a younger row of priority 5 was selected while an older row of priority 1 waits
C1_Witness ==
    \E i, k \in Ids :
        /\ tpc = "extract" /\ t_item = i
        /\ queue[i].priority = 5 /\ queue[k].priority = 1
        /\ queue[k].status = "pending"
        /\ queue[k].created_at < queue[i].created_at

FailedAttempt(i) == tpc = "extract" /\ t_item = i /\ result' = "error"

\* C2: a failed attempt (extraction raised) adds exactly 1 to the row's
\* retry_count, and no other step changes any row's retry_count.
C2_RetryCountStep ==
    [][ \A i \in Ids :
          /\ FailedAttempt(i) => queue'[i].retry_count = queue[i].retry_count + 1
          /\ queue'[i].retry_count # queue[i].retry_count => FailedAttempt(i) ]_vars

\* a row is pending again after two failed attempts
C2_Witness ==
    \E i \in Ids : queue[i].retry_count = 2 /\ queue[i].status = "pending"

\* C3 as stated: failed rows are exactly the rows with retry_count = 3
C3_FailedIffMaxRetries ==
    \A i \in Ids :
        /\ queue[i].status = "failed" => queue[i].retry_count = MAX_RETRIES
        /\ queue[i].retry_count >= MAX_RETRIES => queue[i].status = "failed"

\* C3 amended: a row failed by anything but the missing-document exit has
\* retry_count = 3, a row whose retry_count reached 3 is failed, and a row
\* failed by the missing-document exit keeps a retry_count below 3.
C3_FailedByRetriesIffMax ==
    \A i \in Ids :
        /\ queue[i].status = "failed" /\ queue[i].error_message # "Document not found"
             => queue[i].retry_count = MAX_RETRIES
        /\ queue[i].retry_count >= MAX_RETRIES => queue[i].status = "failed"
        /\ queue[i].error_message = "Document not found"
             => queue[i].status = "failed" /\ queue[i].retry_count < MAX_RETRIES

\* a row failed on its third failed attempt
C3_Witness ==
    \E i \in Ids :
        /\ queue[i].status = "failed"
        /\ queue[i].error_message = "error"
        /\ queue[i].retry_count = MAX_RETRIES

C7_NoLostWakeUp ==
    (/\ \A p \in Producers : ppc[p] = "idle"
     /\ tpc = "idle"
     /\ Pending # {})
    => ~(scheduler = "running" /\ sjob = "paused" /\ ~is_running)

\* C8 as stated: no caller of wake_up waits for the manager lock forever
\* (here: waits in start() for the lock its own wake_up holds)
C8_WakeUpReturns ==
    \A p \in Producers : ~(ppc[p] = "start_lock" /\ lock = p)

WakeReturns(p) == ppc[p] = "enqueued" /\ ppc'[p] = "idle"

\* C9: a wake_up that returns right after another wake_up returned changes
\* nothing; a wake_up on a running worker leaves scheduler, job and running
\* flag as they are and sets idle_count to 0.
C9_WakeUpIdempotent ==
    [][ \A p \in Producers : WakeReturns(p) =>
          /\ wakes >= 1 => mgrVars' = mgrVars
          /\ is_running =>
                /\ <<scheduler, sjob, is_running, lock>>' = <<scheduler, sjob, is_running, lock>>
                /\ idle_count' = 0 ]_vars

\* two wake_up calls have returned in a row
C9_Witness == wakes = 2 /\ is_running /\ idle_count = 0

PausedByIdle == scheduler = "running" /\ sjob = "paused" /\ ~is_running

\* C10: a wake_up on a paused worker sets idle_count to 0, sets the running
\* flag and resumes the periodic job; the running flag is then cleared only
\* after max_idle_checks consecutive empty ticks.
C10_WakeUpResumes ==
    [][ /\ \A p \in Producers : WakeReturns(p) /\ PausedByIdle =>
              /\ idle_count' = 0
              /\ is_running'
              /\ sjob' = "scheduled" /\ scheduler' = "running"
        /\ (is_running /\ ~is_running') => empties >= max_idle_checks ]_vars

\* C5 as stated: a row whose status is completed, failed or cancelled keeps
\* that status in every later step, whatever requests and ticks interleave
C5_TerminalAbsorbing ==
    [][ \A i \in TypoIds :
          tjobs[i].status \in Terminal => tjobs'[i].status = tjobs[i].status ]_vars

\* C6 as stated: no user ever has more than 3 jobs that are pending or
\* processing
C6_PerOwnerCap ==
    \A u \in Users : ActiveJobs(u) <= MaxActiveJobs

\* a wake_up has just resumed a worker that had paused after max_idle_checks
\* empty ticks
C10_Witness ==
    /\ resumed /\ wakes = 1
    /\ is_running /\ sjob = "scheduled" /\ idle_count = 0
    /\ Pending # {}

\* C11 as stated: once shutdown() has stopped the scheduler, the running flag
\* does not report an active worker, no wake_up sets the scheduler running
\* again and no tick fires
C11_ShutdownStopsWorker ==
    [][ scheduler = "stopped" =>
          /\ ~is_running
          /\ scheduler' = "stopped"
          /\ (tpc = "idle" => tpc' = "idle") ]_vars

\* C12: an empty tick stores the idle_count it read plus 1, so idle_count
\* never exceeds the number of consecutive empty ticks; a tick that ends with
\* idle_count >= max_idle_checks pauses the worker and one that ends below it
\* does not; the worker is paused only after max_idle_checks consecutive
\* empty ticks; and no tick fires while it is paused.
C12_IdlePause ==
    [][ /\ (tpc = "incr" /\ tpc' = "check") =>
              /\ idle_count' = t_idle + 1
              /\ idle_count' <= empties
        /\ (tpc = "check" /\ tpc' # "check") =>
              (tpc' = "pause" <=> idle_count >= max_idle_checks)
        /\ (tpc = "pause" /\ tpc' = "idle") =>
              /\ ~is_running'
              /\ sjob' # "scheduled"
              /\ empties >= max_idle_checks
        /\ (PausedByIdle /\ tpc = "idle") => tpc' = "idle" ]_vars

\* the worker has paused at the end of the max_idle_checks-th empty tick in a
\* row, counted from idle_count = 0
C12_Witness ==
    /\ PausedByIdle /\ tpc = "idle"
    /\ idle_count = max_idle_checks /\ empties = max_idle_checks

\* C13: the sweep picks exactly the jobs that are processing with started_at
\* more than the stale window ago; it writes failed, the stale-timeout
\* message and completed_at on each of them whatever its retry_count, which
\* it keeps; every other job (and every field it does not name) is as before.
C13_StaleSweep ==
    [][ /\ (tpc = "idle" /\ tpc' = "sweep") =>
              /\ \A i \in TypoIds :
                   i \in t_stale' <=> /\ tjobs[i].status = "processing"
                                      /\ now - tjobs[i].started_at > StaleWindow
              /\ tjobs' = tjobs
        /\ (tpc = "sweep" /\ tpc' # "sweep") =>
              /\ Len(tjobs') = Len(tjobs)
              /\ \A i \in TypoIds :
                   IF i \in t_stale
                     THEN /\ tjobs'[i].status = "failed"
                          /\ tjobs'[i].error_message = StaleMessage
                          /\ tjobs'[i].completed_at = now
                          /\ tjobs'[i].retry_count = tjobs[i].retry_count
                          /\ tjobs'[i].started_at = tjobs[i].started_at
                          /\ tjobs'[i].created_at = tjobs[i].created_at
                          /\ tjobs'[i].user_id = tjobs[i].user_id
                     ELSE tjobs'[i] = tjobs[i] ]_vars

\* a sweep has failed a stuck job with the stale-timeout message and left its
\* retry_count as it was
C13_Witness ==
    \E i \in TypoIds :
        /\ tjobs[i].status = "failed"
        /\ tjobs[i].error_message = StaleMessage
        /\ tjobs[i].completed_at # None
        /\ tjobs[i].retry_count < MAX_RETRIES

\* a submit or cancel request has begun and not yet returned
RequestInFlight ==
    \/ cpc # "idle"
    \/ \E s \in DOMAIN spc : spc[s] # "idle"

\* C14 as stated: a job that is processing and older than the stale window
\* eventually leaves processing without any further submit or wake_up, that
\* is, also when from then on no request is ever in flight
C14_JanitorLiveness ==
    \A i \in 1..MaxTypoJobs :
        (/\ i <= Len(tjobs)
         /\ tjobs[i].status = "processing"
         /\ now - tjobs[i].started_at > StaleWindow)
        ~> (\/ i > Len(tjobs)
            \/ tjobs[i].status # "processing"
            \/ RequestInFlight)

\* C15: when process_next selects a row whose document is gone, that step
\* makes the row failed with an error_message, keeps its retry_count and
\* started_at, and returns without calling the extraction; such a failed row
\* is never changed again.
C15_FatalError ==
    [][ \A i \in Ids :
          /\ (ClaimStep /\ t_item' = i /\ ~queue[i].document) =>
                /\ queue'[i].status = "failed"
                /\ queue'[i].error_message = "Document not found"
                /\ queue'[i].retry_count = queue[i].retry_count
                /\ queue'[i].started_at = queue[i].started_at
                /\ tpc' = "returned"
                /\ result' = "Document not found"
          /\ (~queue[i].document /\ queue[i].status = "failed") =>
                queue'[i] = queue[i] ]_vars

\* a row whose document was missing has been failed without an attempt and a
\* later tick has run past it
C15_Witness ==
    \E i \in Ids :
        /\ ~queue[i].document
        /\ queue[i].status = "failed"
        /\ queue[i].error_message = "Document not found"
        /\ queue[i].retry_count = 0
        /\ queue[i].started_at = None
        /\ t_item \notin {None, i}

C17_RetriedThenFailed ==
    /\ [][ \A j \in TypoIds :
             (tjobs'[j].retry_count # tjobs[j].retry_count) =>
                /\ tpc = "correct" /\ t_item = j
                /\ tjobs'[j].retry_count = tjobs[j].retry_count + 1
                /\ tjobs'[j].status =
                      IF tjobs'[j].retry_count = MAX_RETRIES THEN "failed" ELSE "pending" ]_vars
    /\ \A j \in 1..MaxTypoJobs :
          (j <= Len(tjobs) /\ tjobs[j].status = "pending")
          ~> (\/ j <= Len(tjobs) /\ tjobs[j].status # "pending"
              \/ RequestInFlight)

\* a job that was cancelled while pending: a job that was claimed has a
\* started_at, and only the return to pending clears it
CancelledWhilePending(j) ==
    tjobs[j].status = "cancelled" /\ tjobs[j].started_at = None

\* C18: a job cancelled while pending is never changed again, no tick that
\* runs its selection afterwards selects it, and no correction call is ever
\* begun for it.
C18_CancelledSkipped ==
    [][ \A j \in TypoIds :
          CancelledWhilePending(j) =>
             /\ tjobs'[j] = tjobs[j]
             /\ (tpc = "sweep" /\ tpc' # "sweep") => t_item' # j
             /\ ~(tpc' = "correct" /\ t_item' = j) ]_vars

\* a tick has run its selection past a job that was cancelled while pending
\* and found nothing to do
C18_Witness ==
    /\ tpc = "empty"
    /\ \E j \in TypoIds : CancelledWhilePending(j)

\* C19: the chunks collected so far, joined in order, are the text up to
\* current_pos, and the returned chunks, joined in order, are the text.
C19_ChunksConcat ==
    /\ kpc = "loop" => Concat(chunks) = Slice(text, 0, current_pos)
    /\ kpc = "returned" => Concat(chunks) = text

\* a call has returned several chunks, the first of them cut at a sentence
\* boundary before the end of its window
C19_Witness ==
    /\ kpc = "returned"
    /\ Len(chunks) >= 2
    /\ Len(chunks[1]) < chunk_size
    /\ chunks[1][Len(chunks[1])] = "."

\* C20: a call on a text no longer than chunk_size returns the one-element
\* list holding that text.
C20_SingleChunk ==
    (kpc = "returned" /\ Len(text) <= chunk_size) => chunks = <<text>>

\* a call on a text of exactly chunk_size characters, and one on the empty
\* text, return the text as the only chunk
C20_Witness ==
    /\ kpc = "returned"
    /\ Len(text) \in {0, chunk_size}
    /\ chunks = <<text>>

\* the positions of the text at which a sentence terminator lies within the
\* last 20% of the window that starts at pos
TerminatorsInWindow(pos) ==
    { p \in search_start(pos)..(pos + chunk_size - 2) :
          Slice(text, p, p + 2) \in boundary_chars }

\* C21: a pass of the loop whose window ends before the end of the text cuts
\* the chunk right after the punctuation mark of the last sentence terminator
\* lying in the last 20% of the window, and exactly at chunk_size when no
\* terminator lies there.
C21_SplitAtLastTerminator ==
    [][ (/\ kpc = "loop"
         /\ current_pos + chunk_size < Len(text)
         /\ Len(chunks') = Len(chunks) + 1)
        => current_pos' = IF TerminatorsInWindow(current_pos) = {}
                            THEN current_pos + chunk_size
                            ELSE Max(TerminatorsInWindow(current_pos)) + 1 ]_vars

\* the span of the original text an issue records
SpanEnd(issue) == issue.position + Len(issue.original)

\* the issue's original snippet appears at its recorded offset of the text t
AppearsAt(t, issue) ==
    /\ issue.position >= 0
    /\ SpanEnd(issue) <= Len(t)
    /\ Slice(t, issue.position, SpanEnd(issue)) = issue.original

\* no two issues of the list share a position or a character of their spans
NonOverlapping(found) ==
    \A i, j \in 1..Len(found) :
        i # j => /\ found[i].position # found[j].position
                 /\ \/ SpanEnd(found[i]) <= found[j].position
                    \/ SpanEnd(found[j]) <= found[i].position

RECURSIVE ReplacedFrom(_, _, _)
\* the text t from offset pos on, with the span of every issue of the list
\* replaced by the issue's correction, all spans taken in t itself
ReplacedFrom(t, found, pos) ==
    LET here == { k \in 1..Len(found) : found[k].position = pos }
        rest(p) == IF p >= Len(t) THEN <<>>
                   ELSE <<t[p + 1]>> \o ReplacedFrom(t, found, p + 1)
    IN  IF here = {}
          THEN rest(pos)
          ELSE LET issue == found[CHOOSE k \in here : TRUE]
               IN  issue.corrected \o
                   (IF issue.original = <<>> THEN rest(pos)
                    ELSE ReplacedFrom(t, found, SpanEnd(issue)))

RECURSIVE SelectIssues(_, _)
\* the issues of the list, in their order, whose original is not in skipped
SelectIssues(found, skipped) ==
    IF found = <<>> THEN <<>>
    ELSE (IF Head(found).original \notin skipped THEN <<Head(found)>> ELSE <<>>)
         \o SelectIssues(Tail(found), skipped)

HasOriginal(issue) == issue.original # <<>>

\* what one pass of the loop does with the issue it takes up
SpliceStep(skipped) ==
    LET issue == sorted_issues[r_i + 1]
        idx == find(recon, issue.original)
    IN  recon' =
          IF issue.original \in skipped THEN recon
          ELSE IF AppearsAt(recon, issue)
            THEN splice(recon, issue.position, SpanEnd(issue), issue.corrected)
          ELSE IF idx # -1
            THEN splice(recon, idx, idx + Len(issue.original), issue.corrected)
          ELSE recon

Descending(found) ==
    \A i, j \in 1..Len(found) : i < j => found[i].position >= found[j].position

\* the returned text is the original with the spans of the issues that
\* are not skipped replaced all at once, when these do not overlap and all
\* match the original at their offsets
SimultaneousResult(skipped) ==
    LET effective == SelectIssues(issues, skipped)
    IN  (/\ NonOverlapping(effective)
         /\ \A k \in 1..Len(effective) : AppearsAt(original_text, effective[k]))
        => recon = ReplacedFrom(original_text, effective, 0)

Reconstructs(skipped) ==
    /\ (rpc = "loop" /\ r_i' = r_i + 1) => SpliceStep(skipped)
    /\ rpc' = "loop" => Descending(sorted_issues')
    /\ (rpc # "returned" /\ rpc' = "returned") =>
          /\ SimultaneousResult(skipped)'
          /\ issues = <<>> => recon' = original_text

\* C23 as stated: issues are applied in descending position order; every
\* issue whose original appears at its recorded offset is replaced there by
\* its correction, otherwise the first occurrence of the original is replaced,
\* otherwise nothing happens; non-overlapping issues that all match at their
\* offsets give the original with all spans replaced at once; an empty issue
\* list returns the original.
C23_ReconstructEveryIssue == [][Reconstructs({})]_vars

\* C23, amended: the same for the issues whose original is not empty; an issue
\* with an empty original leaves the text as it is.
C23_Reconstruct == [][Reconstructs({<<>>})]_vars

\* two issues that match at their offsets, do not overlap and change the
\* length of the text have been applied
C23_Witness ==
    /\ rpc = "returned"
    /\ Len(issues) = 2
    /\ \A k \in 1..2 : HasOriginal(issues[k]) /\ AppearsAt(original_text, issues[k])
    /\ NonOverlapping(issues)
    /\ issues[1].position < issues[2].position
    /\ Len(issues[1].corrected) # Len(issues[1].original)
    /\ recon = ReplacedFrom(original_text, issues, 0)
    /\ recon # original_text

\* C24: while the loop runs, the text at the recorded position of every issue
\* not yet applied is what the original input has there.
C24_OffsetsStayValid ==
    rpc = "loop" =>
        \A k \in (r_i + 1)..Len(sorted_issues) :
            sorted_issues[k].position >= 0 =>
                Slice(recon, sorted_issues[k].position, SpanEnd(sorted_issues[k]))
                  = Slice(original_text, sorted_issues[k].position,
                          SpanEnd(sorted_issues[k]))

RECURSIVE SumLen(_, _)
\* the lengths of the first n sequences of parts, added up
SumLen(parts, n) == IF n = 0 THEN 0 ELSE SumLen(parts, n - 1) + Len(parts[n])

\* the issue lists of the replies, in chunk order
ReplyIssueLists == [ i \in 1..Len(replies) |-> replies[i].issues ]

\* every issue the provider reported for a chunk so far stands in the list
\* found, chunk after chunk, at its local position plus the lengths of the
\* chunks before its own
RebasedInChunkOrder(found) ==
    /\ Len(found) = SumLen(ReplyIssueLists, Len(replies))
    /\ \A i \in 1..Len(replies) : \A k \in 1..Len(replies[i].issues) :
          LET out == found[SumLen(ReplyIssueLists, i - 1) + k]
              reported == replies[i].issues[k]
          IN  /\ out.position = SumLen(chunks, i - 1) + reported.position
              /\ out.original = reported.original
              /\ out.corrected = reported.corrected

\* C22: an issue reported at local position p in chunk i is output at
\* position L0 + ... + L(i-1) + p, whatever the lengths of the corrected texts
\* of the chunks before; issues come out in chunk order, and the corrected
\* texts are joined in chunk order.
C22_PositionsRebased ==
    /\ apc \in {"loop", "joined"} => RebasedInChunkOrder(all_issues)
    /\ apc = "joined" =>
          final_corrected = Concat([ i \in 1..Len(replies) |-> replies[i].corrected_text ])
    /\ (apc = "returned" /\ check_result.success /\ ~check_result.cached) =>
          RebasedInChunkOrder(check_result.issues)

\* a call has returned an issue of the second chunk after a first chunk whose
\* corrected text has another length than the chunk
C22_Witness ==
    /\ apc = "returned"
    /\ check_result.success
    /\ ~check_result.cached
    /\ Len(replies) >= 2
    /\ Len(replies[1].corrected_text) # Len(chunks[1])
    /\ replies[1].issues # <<>>
    /\ replies[2].issues # <<>>
    /\ check_result.issues[Len(check_result.issues)].position >= Len(chunks[1])

\* the joined corrected texts of the replies
JoinedReplies == Concat([ i \in 1..Len(replies) |-> replies[i].corrected_text ])

\* C25: the returned and stored corrected text is the reconstruction exactly
\* when the joined provider output is shorter than half of the original
\* (2 * len(corrected) < len(original)), and the joined output otherwise.
C25_ReconstructThreshold ==
    (apc = "returned" /\ check_result.success /\ ~check_result.cached) =>
        /\ check_result.corrected_text =
              IF 2 * Len(JoinedReplies) < Len(text)
                THEN reconstruct_corrected_text(text, check_result.issues)
                ELSE JoinedReplies
        /\ stored[Len(stored)].corrected_text = check_result.corrected_text

\* a joined output of exactly half of the original's length has been returned
\* and stored as it is, where the reconstruction would have differed
C25_Witness ==
    /\ apc = "returned"
    /\ check_result.success
    /\ ~check_result.cached
    /\ 2 * Len(JoinedReplies) = Len(text)
    /\ check_result.corrected_text = JoinedReplies
    /\ stored[Len(stored)].corrected_text = JoinedReplies
    /\ reconstruct_corrected_text(text, check_result.issues) # JoinedReplies

\* the acquires made in a row, with no time elapsing, on a full bucket:
\* rate of them succeed and every further one fails
BurstExact ==
    h_phase = "burst" => /\ h_granted <= rate
                         /\ h_denied > 0 => h_granted = rate

\* the acquires made in a row after the emptied bucket was left alone for
\* h_wait ticks: most of them succeed, and every further one fails
AfterWaitExact(most) ==
    h_phase = "after" => /\ h_granted <= most
                         /\ h_denied > 0 => h_granted = most

\* C26 as stated: on a full bucket rate acquires made with no time elapsing
\* succeed and the next fails; after a wait of at least 1/rate seconds
\* exactly one further acquire succeeds.
C26_OneAfterWait ==
    /\ BurstExact
    /\ h_wait >= TicksPerToken => AfterWaitExact(1)

\* C26, amended: after a wait of w seconds exactly min(rate, floor(w * rate))
\* further acquires succeed: one for 1/rate <= w < 2/rate, none for a
\* shorter wait.
C26_RefillAfterWait ==
    /\ BurstExact
    /\ AfterWaitExact(Min(rate, h_wait \div TicksPerToken))

\* after a wait of 2/rate seconds or more, two acquires have succeeded and a
\* third has failed
C26_Witness ==
    /\ h_phase = "after"
    /\ h_wait >= 2 * TicksPerToken
    /\ h_granted = 2
    /\ h_denied > 0

\* C27: when the threads have made N acquire() calls on the full bucket with
\* no time elapsing, in any interleaving, exactly min(N, rate) of them have
\* returned True: never more than rate, and none fails while a token is left.
C27_ExactlyMinGranted ==
    h_phase = "burst" =>
        /\ h_granted <= rate
        /\ AllIdle => h_granted = Min(h_granted + h_denied, rate)

\* two threads have called acquire() on a bucket of one token with no time
\* elapsing: one got True and the other False
C27_Witness ==
    /\ h_phase = "burst"
    /\ AllIdle
    /\ rate = 1
    /\ ret[1] \in {"True", "False"} /\ ret[2] \in {"True", "False"}
    /\ ret[1] # ret[2]
    /\ h_granted = 1
    /\ h_denied = 1

\* the positions at which a thread writes _tokens or _last_update
Mutates(t) ==
    lpc[t] \in {"refill_store", "refill_stamp", "dec_store", "reset_tokens",
                "reset_stamp"}

\* C28: a thread writes the token count or the last-refill timestamp only
\* while it holds the lock, whether it is inside acquire, reset or a read of
\* tokens; and with no time elapsing and no reset, never more than rate
\* acquires succeed, whatever reads of tokens run beside them.
C28_MutationsUnderLock ==
    [][ /\ \A t \in Callers : (Mutates(t) /\ lpc'[t] # lpc[t]) => llock = t
        /\ h_phase' = "burst" => h_granted' <= rate ]_vars

\* the blocking acquire of thread 1 is inside its call
Blocking == op[1] = "wait"

\* the returns of acquire: a poll that took a token returns True at the
\* thread's next step, a blocking call returns False only when its timeout
\* has elapsed, and a call with wait=False never reaches the timeout test or
\* the sleep
Returns ==
    [][ /\ (Blocking /\ lpc[1] = "unlock_true" /\ lpc'[1] # lpc[1])
              => (ret'[1] = "True" /\ lpc'[1] = "idle")
        /\ (Blocking /\ ret'[1] = "False")
              => (l_timeout[1] # None /\ waited[1] >= l_timeout[1])
        /\ \A t \in Callers :
              op[t] = "try" => /\ lpc'[t] \notin {"timeout", "sleep"}
                               /\ (lpc[t] = "check" /\ ~has_token(tokens)
                                      /\ lpc'[t] # lpc[t]) => lpc'[t] = "unlock_false"
                               /\ (lpc[t] = "unlock_false" /\ lpc'[t] # lpc[t])
                                      => ret'[t] = "False" ]_vars

\* a blocking acquire with a timeout returns
TerminatesWithTimeout == (Blocking /\ l_timeout[1] # None) ~> (lpc[1] = "idle")

\* C29 as stated: acquire(wait=True, timeout=t) returns True as soon as a poll
\* takes a token, returns False only after t has elapsed, and returns when t
\* is given; acquire(wait=False) returns False at once when there is no whole
\* token; with timeout=None a blocking acquire succeeds in the end.
C29_BlockingAcquire ==
    /\ Returns
    /\ TerminatesWithTimeout
    /\ (Blocking /\ l_timeout[1] = None) ~> (lpc[1] = "unlock_true")

\* C29: acquire(wait=True, timeout=t) returns True as soon as a poll takes a
\* token, returns False only after t has elapsed, and returns when t is
\* given; acquire(wait=False) returns False at once when there is no whole
\* token; with timeout=None a blocking acquire succeeds in the end unless
\* other callers go on taking the tokens: from every point of the wait on,
\* the waiting call or another caller takes a token.
C29_BlockingAcquireContended ==
    /\ Returns
    /\ TerminatesWithTimeout
    /\ (Blocking /\ l_timeout[1] = None)
          ~> (lpc[1] = "unlock_true" \/ lpc[2] = "unlock_true")

\* a blocking acquire without a timeout takes a token after thread 2 took one
C29_Witness ==
    /\ Blocking
    /\ l_timeout[1] = None
    /\ lpc[1] = "unlock_true"
    /\ ret[2] = "True"

\* the transitions of the job state machine
Transitions ==
    { <<"pending", "processing">>, <<"processing", "completed">>,
      <<"processing", "pending">>, <<"processing", "failed">>,
      <<"pending", "cancelled">>, <<"processing", "cancelled">> }

\* every status change from the rows before to the rows after is a transition
FollowsStateMachine(before, after) ==
    \A i \in DOMAIN before :
        after[i].status # before[i].status
           => <<before[i].status, after[i].status>> \in Transitions

\* C30: every status change of an extraction row or of a typo-check job is
\* one of pending->processing, processing->completed, processing->pending,
\* processing->failed, pending->cancelled, processing->cancelled, and the
\* external call is entered only by the step that takes the job from pending
\* to processing.
C30_StateMachine ==
    [][ /\ FollowsStateMachine(queue, queue')
        /\ FollowsStateMachine(tjobs, tjobs')
        /\ (tpc' = "extract" /\ tpc # "extract")
              => (queue[t_item'].status = "pending"
                    /\ queue'[t_item'].status = "processing")
        /\ (tpc' = "correct" /\ tpc # "correct")
              => (tjobs[t_item'].status = "pending"
                    /\ tjobs'[t_item'].status = "processing") ]_vars

\* the step of process_next that commits the outcome of the extraction
FinishStep == tpc = "extract" /\ tpc' = "returned"

\* C32: a failed attempt that leaves retries (retry_count + 1 < MAX_RETRIES)
\* puts the row back to pending with started_at cleared, the error in
\* error_message and completed_at unset; priority and created_at are as
\* before and the row is among those get_next_pending selects from.
C32_RetryReturnsToPending ==
    [][ (FinishStep /\ result' = "error"
           /\ queue[t_item].retry_count + 1 < MAX_RETRIES)
          => /\ queue'[t_item].status = "pending"
             /\ queue'[t_item].started_at = None
             /\ queue'[t_item].error_message = "error"
             /\ queue'[t_item].completed_at = None
             /\ queue'[t_item].retry_count = queue[t_item].retry_count + 1
             /\ queue'[t_item].priority = queue[t_item].priority
             /\ queue'[t_item].created_at = queue[t_item].created_at
             /\ t_item \in { i \in 1..Len(queue') : queue'[i].status = "pending" } ]_vars

\* a row back in the queue after a failed attempt, the tick not yet ended
C32_Witness ==
    /\ tpc = "returned"
    /\ result = "error"
    /\ t_item # None
    /\ queue[t_item].status = "pending"
    /\ queue[t_item].retry_count = 1
    /\ queue[t_item].started_at = None

\* the tick's process_next hands its row to extract_text
TickEntersExtract == tpc' = "extract" /\ tpc # "extract"

\* the command's process_next hands its row to extract_text
CliEntersExtract == cli_pc' = "extract" /\ cli_pc # "extract"

\* C31: with process_next run by the worker's tick and by the process-queue
\* command at once, a row is handed to extract_text only by a step that takes
\* it from pending to processing, the two contexts never extract the same
\* row at the same time, and every failed attempt a context commits adds
\* exactly 1 to the row's retry_count.
C31_ClaimAtomic ==
    [][ /\ TickEntersExtract => queue[t_item'].status = "pending"
        /\ CliEntersExtract => queue[cli_item].status = "pending"
        /\ ~(tpc' = "extract" /\ cli_pc' = "extract" /\ t_item' = cli_item')
        /\ (cli_pc = "failing" /\ cli_pc' = "idle")
              => queue'[cli_item].retry_count = queue[cli_item].retry_count + 1
        /\ (FinishStep /\ result' = "error")
              => queue'[t_item].retry_count = queue[t_item].retry_count + 1 ]_vars

\* the positions of a tick that found work, and the order they are passed in
Working == {"process_next", "extract", "returned", "process_job", "correct"}

WorkOrder ==
    { <<"process_next", "extract">>, <<"process_next", "returned">>,
      <<"extract", "returned">>, <<"returned", "idle">>,
      <<"process_job", "correct">>, <<"process_job", "idle">>,
      <<"correct", "idle">> }

\* a step of the tick while it works on what it found
WorkStep == tpc \in Working /\ tpc' # tpc /\ scheduler' # "None"

\* C33: a tick that finds pending work sets idle_count to 0 and calls the
\* process step once: it goes through process_next (process_job) a single
\* time, writes no row but the one that call selected, however many rows are
\* pending, and does not pause the job.
C33_OneJobPerTick ==
    [][ /\ (TickFires /\ tpc' # tpc /\ tpc' # "sweep" /\ Pending # {})
              => (idle_count' = 0 /\ tpc' = "process_next")
        /\ (tpc = "sweep" /\ tpc' # tpc /\ FirstPending(Swept) # {})
              => (idle_count' = 0 /\ tpc' = "process_job")
        /\ WorkStep
              => /\ <<tpc, tpc'>> \in WorkOrder
                 /\ \A i \in Ids : i \notin {t_item, t_item'} => queue'[i] = queue[i]
                 /\ \A j \in TypoIds : j \notin {t_item, t_item'} => tjobs'[j] = tjobs[j]
                 /\ sjob' = sjob
                 /\ is_running' = is_running ]_vars

\* a tick has completed one row and another row is still pending
C33_Witness ==
    /\ tpc = "returned"
    /\ queue[t_item].status = "completed"
    /\ Pending # {}
    /\ idle_count = 0
    /\ sjob = "scheduled"

\* the extraction rows left in processing for longer than the stale window
StaleRows ==
    { i \in Ids : /\ queue[i].status = "processing"
                  /\ queue[i].started_at < now - StaleWindow }

\* the typo-check jobs left in processing for longer than the stale window
StaleJobs ==
    { j \in TypoIds : /\ tjobs[j].status = "processing"
                      /\ tjobs[j].started_at < now - StaleWindow }

\* C34: a tick of either scheduler sweeps before it looks for pending work:
\* when the extraction tick has counted the pending rows, every row that was
\* stale when the tick fired is failed; the typo tick loads the stale jobs
\* first and has failed them when it selects the oldest pending job.
C34_SweepFirst ==
    [][ /\ (TickFires /\ tpc' \notin {tpc, "sweep"})
              => \A i \in StaleRows : queue'[i].status = "failed"
        /\ (TickFires /\ tpc' = "sweep") => t_stale' = StaleJobs
        /\ (tpc = "sweep" /\ tpc' # tpc /\ scheduler' # "None")
              => \A j \in t_stale : tjobs'[j].status = "failed" ]_vars

\* every chunk made so far has at least 1 and at most chunk_size characters
ChunkSizes ==
    \A k \in 1..Len(chunks) : Len(chunks[k]) >= 1 /\ Len(chunks[k]) <= chunk_size

\* once returned: every chunk but the last is longer than int(0.8 * chunk_size),
\* and a text of more than chunk_size and at most 1.5 * chunk_size characters
\* (12,000 for 8000) has made exactly 2 chunks
ChunkCount ==
    kpc = "returned"
       => /\ \A k \in 1..(Len(chunks) - 1) : Len(chunks[k]) > (chunk_size * 8) \div 10
          /\ (Len(text) > chunk_size /\ 2 * Len(text) <= 3 * chunk_size)
                => Len(chunks) = 2

\* the call returns: inside the loop the next chunk ends beyond current_pos
\* and within the text, and every pass of the loop moves current_pos forward
ChunkTerminates ==
    /\ []((kpc = "loop" /\ current_pos < Len(text))
             => (end_pos(current_pos) > current_pos /\ end_pos(current_pos) <= Len(text)))
    /\ [](current_pos <= Len(text))
    /\ [][kpc = "loop" => (current_pos' > current_pos \/ kpc' = "returned")]_vars

\* C35 as stated: for every text and every chunk_size >= 1 the call returns,
\* every chunk is non-empty and at most chunk_size long, every chunk but the
\* last is longer than int(0.8 * chunk_size), and a text 1.5 times chunk_size
\* long makes exactly 2 chunks.
C35_ChunkLengthsAnyText ==
    /\ [](ChunkSizes /\ ChunkCount)
    /\ ChunkTerminates

\* C35: for every non-empty text and every chunk_size >= 1 the call returns,
\* every chunk is non-empty and at most chunk_size long, every chunk but the
\* last is longer than int(0.8 * chunk_size), and a text 1.5 times chunk_size
\* long makes exactly 2 chunks; the empty text returns the one chunk "".
C35_ChunkLengths ==
    /\ []((Len(text) > 0 => ChunkSizes) /\ ChunkCount)
    /\ [](Len(text) = 0 /\ kpc = "returned" => chunks = << <<>> >>)
    /\ ChunkTerminates

\* a text split at a sentence boundary, the first chunk shorter than chunk_size
C35_Witness ==
    /\ kpc = "returned"
    /\ Len(chunks) = 2
    /\ Len(chunks[1]) < chunk_size
    /\ 2 * Len(text) <= 3 * chunk_size

\* the token count lies between 0 and the capacity
TokensInRange == 0 <= tokens /\ tokens <= Full

\* thread t writes the decrement of a successful acquire
Decrements(t) == lpc[t] = "dec_store" /\ lpc'[t] = "unlock_true"

\* thread t takes a step of an acquire that does not write the decrement
AcquireStep(t) ==
    /\ op[t] \in {"try", "wait"}
    /\ lpc'[t] # lpc[t]
    /\ ~Decrements(t)

\* C36: in every reachable state 0 <= tokens <= rate; refill never raises the
\* count above the capacity, a successful acquire lowers it by exactly 1 and
\* only when it is at least 1, no other step of an acquire lowers it, and
\* reset sets it to exactly rate.
C36_TokensInRange ==
    /\ []TokensInRange
    /\ [][ \A t \in Callers :
             /\ Decrements(t) => (has_token(tokens) /\ tokens' = tokens - TicksPerToken)
             /\ AcquireStep(t) => tokens' >= tokens
             /\ (lpc[t] = "reset_tokens" /\ lpc'[t] # lpc[t]) => tokens' = Full ]_vars

\* ticks will fire: the periodic job is scheduled, not paused, in a running
\* scheduler
TicksWillFire == scheduler = "running" /\ sjob = "scheduled"

\* C37: after any sequence of init_app, start, pause by a tick, wake_up and
\* shutdown, is_running is true exactly when the periodic job is scheduled
\* and not paused in a running scheduler, and start() on a manager that is
\* already running changes neither the job, the flag nor idle_count.
C37_FlagAgreesWithScheduler ==
    /\ [](is_running <=> TicksWillFire)
    /\ [][(is_running /\ scheduler = "None" /\ scheduler' # "None")
             => UNCHANGED <<sjob, is_running, idle_count>>]_vars

\* the timestamps and the message of a row or job agree with its status
TimestampsAgree(row) ==
    /\ row.status \in Terminal => row.completed_at # None
    /\ row.status = "failed" => row.error_message # "null"
    /\ row.status = "processing" => row.started_at # None
    /\ row.status = "pending" => row.started_at = None

\* C38: in every reachable state every terminal job (completed, failed or
\* cancelled) has completed_at set, every failed job has an error_message,
\* every processing job has started_at set and every pending job has
\* started_at unset, for extraction rows and typo-check jobs alike.
C38_TimestampsAgree ==
    /\ \A i \in Ids : TimestampsAgree(queue[i])
    /\ \A j \in TypoIds : TimestampsAgree(tjobs[j])

\* C39: when process_next has returned from work on a row, the document's
\* extraction_status equals the status of its queue row: failed when the row
\* failed after its retries, and not processing when the row is pending
\* again for a retry.
C39_DocumentFollowsRow ==
    (tpc = "returned" /\ t_item # None /\ queue[t_item].document)
       => queue[t_item].extraction_status = queue[t_item].status

\* the provider has reported failure for a chunk and check_text has returned
ProviderFailed ==
    /\ apc = "returned"
    /\ ~check_result.success
    /\ check_result.error = "Failed to check typos"

\* C40: check_text is all-or-nothing over chunks: a failure of the provider
\* for any chunk returns success = false with empty corrected_text and no
\* issues, stores no TypoCheckResult and calls the provider for no later
\* chunk; a result is stored only when every chunk has succeeded; with no
\* stored result a later check_text of the same text by the same user goes
\* to the provider again, and with a stored result it returns that result,
\* marked cached, without a provider call.
C40_AllOrNothing ==
    /\ [][ (apc = "loop" /\ apc' = "returned")
              => /\ check_result' = check_failed("Failed to check typos")
                 /\ stored' = stored
                 /\ replies' = replies ]_vars
    /\ [][ stored' # stored
              => /\ apc = "joined" /\ apc' = "returned"
                 /\ c_i = Len(chunks)
                 /\ check_result'.success ]_vars
    /\ [][ replies' # replies => apc \in {"chunking", "loop"} ]_vars
    /\ [](ProviderFailed => stored = <<>>)
    /\ [][ (apc = "called" /\ apc' # apc /\ ~is_blank(text))
              => IF stored = <<>>
                   THEN \/ apc' = "chunking"
                        \/ apc' = "returned" /\ ~check_result'.success
                   ELSE /\ apc' = "returned"
                        /\ check_result'.success
                        /\ check_result'.cached
                        /\ check_result'.corrected_text = stored[1].corrected_text
                        /\ check_result'.issues = stored[1].issues
                        /\ replies' = replies ]_vars

\* the provider failed on the second chunk after it had corrected the first
C40_Witness ==
    /\ ProviderFailed
    /\ Len(replies) >= 1
    /\ stored = <<>>

====
